---- MODULE Spec2Model ----
(***************************************************************************)
(* devops_agent: the agent tool-calling loop (agents.py), the tool         *)
(* executor (agent_tools.py), the command emulator (unix_emulator.py) and  *)
(* the persisted history reader (utils.py), as one state machine.          *)
(***************************************************************************)
EXTENDS Integers, Sequences, FiniteSets, TLC

(***************************************************************************)
(* Python str methods the code uses.  TLA+ strings are sequences of        *)
(* one-character strings, so the methods are computed on the characters.   *)
(***************************************************************************)
Ch(s, i) == SubSeq(s, i, i)

Drop(s, n) == SubSeq(s, n + 1, Len(s))

IsSpace(c) == c \in {" ", "\t", "\n"}

RECURSIVE LStrip(_)
LStrip(s) == IF Len(s) > 0 /\ IsSpace(Ch(s, 1)) THEN LStrip(Drop(s, 1)) ELSE s

RECURSIVE RStrip(_)
RStrip(s) ==
    IF Len(s) > 0 /\ IsSpace(Ch(s, Len(s)))
    THEN RStrip(SubSeq(s, 1, Len(s) - 1))
    ELSE s

\* s.strip()
Strip(s) == RStrip(LStrip(s))

RECURSIVE LStripCh(_, _)
LStripCh(s, c) == IF Len(s) > 0 /\ Ch(s, 1) = c THEN LStripCh(Drop(s, 1), c) ELSE s

RECURSIVE RStripCh(_, _)
RStripCh(s, c) ==
    IF Len(s) > 0 /\ Ch(s, Len(s)) = c
    THEN RStripCh(SubSeq(s, 1, Len(s) - 1), c)
    ELSE s

\* s.strip(c) for a one-character c
StripCh(s, c) == RStripCh(LStripCh(s, c), c)

\* the longest prefix of s that holds no whitespace
RECURSIVE TakeWord(_)
TakeWord(s) ==
    IF Len(s) = 0 \/ IsSpace(Ch(s, 1)) THEN "" ELSE Ch(s, 1) \o TakeWord(Drop(s, 1))

\* s.split(): the whitespace-separated words of s
RECURSIVE SplitWs(_)
SplitWs(s) ==
    LET t == LStrip(s) IN
    IF Len(t) = 0 THEN <<>>
    ELSE LET w == TakeWord(t) IN <<w>> \o SplitWs(Drop(t, Len(w)))

\* s.split(maxsplit=1): the first word and, when there is one, the remainder
SplitWs1(s) ==
    LET t == LStrip(s) IN
    IF Len(t) = 0 THEN <<>>
    ELSE LET w == TakeWord(t)
             r == LStrip(Drop(t, Len(w)))
         IN IF Len(r) = 0 THEN <<w>> ELSE <<w, r>>

\* the first position of the character c in s, 0 when there is none
IndexOf(s, c) ==
    IF \E i \in 1..Len(s) : Ch(s, i) = c
    THEN CHOOSE i \in 1..Len(s) : Ch(s, i) = c /\ \A j \in 1..(i - 1) : Ch(s, j) # c
    ELSE 0

\* s.split(c) for a one-character separator: empty fields are kept
RECURSIVE SplitOn(_, _)
SplitOn(s, c) ==
    LET i == IndexOf(s, c) IN
    IF i = 0 THEN <<s>> ELSE <<SubSeq(s, 1, i - 1)>> \o SplitOn(Drop(s, i), c)

\* sep.join(parts)
RECURSIVE Join(_, _)
Join(parts, sep) ==
    IF Len(parts) = 0 THEN ""
    ELSE IF Len(parts) = 1 THEN parts[1]
    ELSE parts[1] \o sep \o Join(Tail(parts), sep)

\* s.startswith(p)
StartsWith(s, p) == Len(s) >= Len(p) /\ SubSeq(s, 1, Len(p)) = p

\* sub in s
Contains(s, sub) ==
    \E i \in 1..(Len(s) - Len(sub) + 1) : SubSeq(s, i, i + Len(sub) - 1) = sub

\* the characters of the names and command lines of the model, in code point order
Ascii == "\t\n -./0123456789ABCDEFGHIJKLMNOPQRSTUVWXYZ_abcdefghijklmnopqrstuvwxyz~"

Ord(c) == IndexOf(Ascii, c)

\* a < b for Python strings
RECURSIVE StrLess(_, _)
StrLess(a, b) ==
    IF Len(b) = 0 THEN FALSE
    ELSE IF Len(a) = 0 THEN TRUE
    ELSE IF Ch(a, 1) = Ch(b, 1) THEN StrLess(Drop(a, 1), Drop(b, 1))
    ELSE Ord(Ch(a, 1)) < Ord(Ch(b, 1))

\* sorted(names) for a collection of distinct strings
RECURSIVE Sorted(_)
Sorted(names) ==
    IF names = {} THEN <<>>
    ELSE LET m == CHOOSE x \in names : \A y \in names \ {x} : StrLess(x, y)
         IN <<m>> \o Sorted(names \ {m})

(***************************************************************************)
(* unix_emulator.py.  file_system is the nested mapping of the code: a     *)
(* function from entry names to sub-trees, the empty function for a leaf.  *)
(***************************************************************************)
EmptyDir == [n \in {} |-> n]

\* d[name] = sub, the other entries kept
SetEntry(d, name, sub) ==
    [n \in DOMAIN d \cup {name} |-> IF n = name THEN sub ELSE d[n]]

\* del d[name]
DelEntry(d, name) == [n \in DOMAIN d \ {name} |-> d[n]]

DefaultFileSystem ==
    SetEntry(EmptyDir, "/",
        SetEntry(EmptyDir, "home",
            SetEntry(EmptyDir, "pablo",
                SetEntry(EmptyDir, "motionapps", EmptyDir))))

HomeDir == "/home/pablo"

\* the keys of self.commands after __init__ without custom commands
BuiltinCommands == {"pwd", "cd", "ls", "git pull", "reboot", "sudo", "uname", "whoami"}

\* what a handler hands back to execute: its string and the working directory it leaves
EmuReturn(out, dir) == [raised |-> FALSE, out |-> out, current_dir |-> dir]

\* an exception leaving execute; the working directory is as it was
EmuRaise(exc, dir) == [raised |-> TRUE, out |-> exc, current_dir |-> dir]

\* the traversal loop of _path_exists
RECURSIVE WalkExists(_, _)
WalkExists(current, parts) ==
    IF Len(parts) = 0 THEN TRUE
    ELSE IF parts[1] \notin DOMAIN current THEN FALSE
    ELSE WalkExists(current[parts[1]], Tail(parts))

PathExists(fs, path) ==
    IF path = "/" THEN TRUE
    ELSE WalkExists(fs["/"], SplitOn(StripCh(path, "/"), "/"))

\* the traversal loop of _get_dir_contents: empty parts are skipped
RECURSIVE WalkDir(_, _)
WalkDir(current, parts) ==
    IF Len(parts) = 0 THEN [found |-> TRUE, names |-> DOMAIN current]
    ELSE IF parts[1] = "" THEN WalkDir(current, Tail(parts))
    ELSE IF parts[1] \notin DOMAIN current THEN [found |-> FALSE, names |-> {}]
    ELSE WalkDir(current[parts[1]], Tail(parts))

LsError(path) == "ls: cannot access '" \o path \o "': No such file or directory"

\* found: the entry names; not found: the error string
GetDirContents(fs, path) ==
    IF ~PathExists(fs, path) THEN [found |-> FALSE, names |-> {}]
    ELSE WalkDir(fs["/"], SplitOn(StripCh(path, "/"), "/"))

\* the "resolve .. in path" loop of _cd
RECURSIVE ResolveParts(_, _)
ResolveParts(parts, resolved_parts) ==
    IF Len(parts) = 0 THEN resolved_parts
    ELSE LET part == parts[1] IN
         IF part = "" \/ part = "." THEN ResolveParts(Tail(parts), resolved_parts)
         ELSE IF part = ".."
              THEN ResolveParts(Tail(parts),
                       IF Len(resolved_parts) > 0
                       THEN SubSeq(resolved_parts, 1, Len(resolved_parts) - 1)
                       ELSE resolved_parts)
              ELSE ResolveParts(Tail(parts), Append(resolved_parts, part))

\* the absolute, unresolved path of a target given relative to dir (_cd and _ls)
AbsPath(dir, target) ==
    IF StartsWith(target, "/") THEN target
    ELSE IF dir = "/" THEN "/" \o target
    ELSE dir \o "/" \o target

\* the path of _cd with its "resolve .. in path" loop left out
CdResolveUnresolved(dir, target) == AbsPath(dir, target)

CdResolve(dir, target) ==
    "/" \o Join(ResolveParts(SplitOn(AbsPath(dir, target), "/"), <<>>), "/")

Pwd(fs, dir, args) == EmuReturn(dir, dir)

Cd(fs, dir, args) ==
    LET target == Strip(args) IN
    IF target = "" \/ target = "~" THEN EmuReturn("", HomeDir)
    ELSE LET new_path == CdResolve(dir, target) IN
         IF PathExists(fs, new_path) THEN EmuReturn("", new_path)
         ELSE EmuReturn("bash: cd: " \o target \o ": No such file or directory", dir)

\* the first argument that is not an option, as the for loop of _ls finds it
LsTarget(dir, args_parts) ==
    IF \E i \in 1..Len(args_parts) : ~StartsWith(args_parts[i], "-")
    THEN LET i == CHOOSE k \in 1..Len(args_parts) :
                      /\ ~StartsWith(args_parts[k], "-")
                      /\ \A j \in 1..(k - 1) : StartsWith(args_parts[j], "-")
         IN AbsPath(dir, args_parts[i])
    ELSE dir

ShowHidden(args) == Contains(args, "-a")

Ls(fs, dir, args) ==
    LET show_hidden == ShowHidden(args)
        target_dir == LsTarget(dir, SplitWs(args))
        dir_contents == GetDirContents(fs, target_dir)
    IN IF ~dir_contents.found THEN EmuReturn(LsError(target_dir), dir)
       ELSE LET shown == IF show_hidden THEN dir_contents.names
                         ELSE {item \in dir_contents.names : ~StartsWith(item, ".")}
            IN EmuReturn(Join(Sorted(shown), "  "), dir)

\* a pull that leaves the shell in the repository
GitPullInRepo(fs, dir, args) == EmuReturn("Already up to date.", "/home/pablo/motionapps")

GitPull(fs, dir, args) == EmuReturn("Already up to date.", dir)

Reboot(fs, dir, args) ==
    EmuReturn("Operation not permitted, must be run with sudo to work", dir)

\* sudo that runs cd as the sub-command
SudoRunsCd(fs, dir, args) ==
    LET parts == SplitWs1(Strip(args)) IN
    IF Len(parts) = 0 THEN EmuReturn("Usage: sudo command [arguments]", dir)
    ELSE IF parts[1] = "reboot" THEN EmuReturn("System is rebooting...", dir)
    ELSE IF parts[1] = "cd" THEN Cd(fs, dir, IF Len(parts) > 1 THEN parts[2] ELSE "")
    ELSE EmuReturn("sudo: command not found: " \o parts[1], dir)

Sudo(fs, dir, args) ==
    LET parts == SplitWs1(Strip(args)) IN
    IF Len(parts) = 0 THEN EmuReturn("Usage: sudo command [arguments]", dir)
    ELSE IF parts[1] = "reboot" THEN EmuReturn("System is rebooting...", dir)
    ELSE EmuReturn("sudo: command not found: " \o parts[1], dir)

Uname(fs, dir, args) ==
    LET a == Strip(args) IN
    EmuReturn(
        CASE a = "-a" -> "Linux ubuntu-server 5.15.0-92-generic #102-Ubuntu SMP Wed Jan 10 09:33:48 UTC 2024 x86_64 x86_64 x86_64 GNU/Linux"
          [] a = "" -> "Linux"
          [] a = "-s" -> "Linux"
          [] a = "-n" -> "ubuntu-server"
          [] a = "-r" -> "5.15.0-92-generic"
          [] a = "-v" -> "#102-Ubuntu SMP Wed Jan 10 09:33:48 UTC 2024"
          [] a \in {"-m", "-p", "-i"} -> "x86_64"
          [] a = "-o" -> "GNU/Linux"
          [] OTHER -> "uname: invalid option -- '" \o a
                          \o "'\nTry 'uname --help' for more information.",
        dir)

Whoami(fs, dir, args) == EmuReturn("pablo", dir)

\* self.commands[name](args) for the built-in handlers
Handler(name, fs, dir, args) ==
    CASE name = "pwd" -> Pwd(fs, dir, args)
      [] name = "cd" -> Cd(fs, dir, args)
      [] name = "ls" -> Ls(fs, dir, args)
      [] name = "git pull" -> GitPull(fs, dir, args)
      [] name = "reboot" -> Reboot(fs, dir, args)
      [] name = "sudo" -> Sudo(fs, dir, args)
      [] name = "uname" -> Uname(fs, dir, args)
      [] name = "whoami" -> Whoami(fs, dir, args)

\* parts[0] of an empty list is an IndexError
ExecuteEmpty(dir) == EmuRaise("IndexError", dir)

CommandNotFound(base_cmd) == "Command not found: " \o base_cmd

execute(fs, dir, command) ==
    LET parts == SplitWs1(Strip(command)) IN
    IF Len(parts) = 0 THEN ExecuteEmpty(dir)
    ELSE LET git == parts[1] = "git" /\ Len(parts) > 1
             sub == IF git THEN SplitWs(parts[2]) ELSE <<>>
             base_cmd == IF git THEN parts[1] \o " " \o sub[1] ELSE parts[1]
             args == IF git THEN Join(Tail(sub), " ")
                     ELSE IF Len(parts) > 1 THEN parts[2] ELSE ""
         IN IF base_cmd \in BuiltinCommands THEN Handler(base_cmd, fs, dir, args)
            ELSE IF command \in BuiltinCommands THEN Handler(command, fs, dir, "")
            ELSE EmuReturn(CommandNotFound(base_cmd), dir)

\* the navigation loop and the final assignment of add_file, on the sub-tree current
RECURSIVE AddAt(_, _, _, _)
AddAt(current, parts, filename, content) ==
    IF Len(parts) = 0 THEN SetEntry(current, filename, content)
    ELSE IF parts[1] = "" THEN AddAt(current, Tail(parts), filename, content)
    ELSE LET sub == IF parts[1] \in DOMAIN current THEN current[parts[1]] ELSE EmptyDir
         IN SetEntry(current, parts[1], AddAt(sub, Tail(parts), filename, content))

\* the file system add_file(path, content) leaves
add_file(fs, path, content) ==
    LET parts == SplitOn(StripCh(path, "/"), "/")
        filename == parts[Len(parts)]
    IN SetEntry(fs, "/", AddAt(fs["/"], SubSeq(parts, 1, Len(parts) - 1), filename, content))

\* the navigation loop and the deletion of remove_file, on the sub-tree current
RECURSIVE RemoveAt(_, _, _)
RemoveAt(current, parts, filename) ==
    IF Len(parts) = 0
    THEN IF filename \in DOMAIN current
         THEN [result |-> TRUE, tree |-> DelEntry(current, filename)]
         ELSE [result |-> FALSE, tree |-> current]
    ELSE IF parts[1] = "" THEN RemoveAt(current, Tail(parts), filename)
    ELSE IF parts[1] \notin DOMAIN current THEN [result |-> FALSE, tree |-> current]
    ELSE LET r == RemoveAt(current[parts[1]], Tail(parts), filename)
         IN [result |-> r.result, tree |-> SetEntry(current, parts[1], r.tree)]

\* what remove_file(path) returns and the file system it leaves
remove_file(fs, path) ==
    LET parts == SplitOn(StripCh(path, "/"), "/")
        filename == parts[Len(parts)]
        r == RemoveAt(fs["/"], SubSeq(parts, 1, Len(parts) - 1), filename)
    IN [result |-> r.result, file_system |-> SetEntry(fs, "/", r.tree)]

(***************************************************************************)
(* Bounds of the model and constants of the program.                       *)
(***************************************************************************)
\* max_iterations of run_agent_loop
MaxIterations == 12

\* history[-10:] of read_history_from_file
HistoryWindow == 10

\* blocks in one completion of the provider
MaxBlocks == 2

\* over one session: the blocks of completions other than the plain run_shell
\* request, plus the invocations of run_agent_loop after the first
MaxVaried == 1

\* invocations of run_agent_loop in one session
MaxInvocations == 2

\* turns in the persisted history file
MaxFileLen == 11

VARIABLES
    tasks,            \* the tasks/ directory: dir (it exists) and files (name -> content)
    agent,            \* the Agent instance of the session
    file_system,      \* agent.tools.unix_emulator.file_system
    current_dir,      \* agent.tools.unix_emulator.current_dir
    default_history,  \* the list object bound as the default of run_agent_loop's history
    arg_history,      \* the list object the caller passed as history
    hist_ref,         \* which of the two lists the local name history refers to
    user_input,       \* run_agent_loop's user_input
    msgs,             \* run_agent_loop's msgs
    it,               \* the loop variable of run_agent_loop (-1: not assigned yet)
    do_loop,          \* run_agent_loop's do_loop
    response,         \* response.content of the last completion
    pos,              \* the index in response of the block the for loop handles next
    pc,               \* where the session is
    calls,            \* completion calls made by the running invocation
    logged,           \* the running invocation logged "max iterations reached"
    exc,              \* the exception that ended the last operation: type, origin
    start_history,    \* the history as it was when the running invocation started
    inv,              \* invocations of run_agent_loop started so far
    earlier_inputs,   \* user inputs of the earlier invocations that had no history argument
    varied,           \* what the session has used of MaxVaried
    only_shell,       \* every completion of the running invocation requested run_shell
    history_file,     \* data/history.json: exists, turns
    window,           \* what read_history_from_file returned: state, turns
    emu_out,          \* what the last call of the emulator returned, when it was execute
    file_call,        \* the last call of the emulator, when it was add_file or remove_file
    tool_call,        \* the last direct call of update_tasks: its arguments and outcome
    save_call,        \* the last call of save_agent_context: its arguments and outcome
    heap,             \* the dictionaries two emulators may share: reference -> value
    emulators,        \* the emulators of two AgentTools instances: references, current_dir
    responses,        \* what the last process_text call returned (<<>>: nothing yet)
    sessions          \* the process_text calls that run at the same time: their locals

loopVars == <<default_history, arg_history, hist_ref, user_input, msgs, it, do_loop,
              response, pos, calls, logged, inv, earlier_inputs, varied, only_shell,
              start_history>>

emuVars == <<file_system, current_dir>>

fileVars == <<history_file, window>>

pairVars == <<heap, emulators>>

textVars == <<responses, sessions>>

vars == <<tasks, agent, emuVars, loopVars, pc, exc, fileVars, emu_out, file_call, tool_call, save_call, pairVars, textVars>>

(***************************************************************************)
(* The task store: tasks/<name>.json.  A document is a function from its   *)
(* keys to their values; a context value is written as its JSON text.      *)
(***************************************************************************)
\* dict.get(key, default)
DictGet(d, key, default) == IF key \in DOMAIN d THEN d[key] ELSE default

\* d.setdefault(key, value): a key the caller set is kept
DictSetDefault(d, key, value) ==
    [k \in DOMAIN d \cup {key} |-> IF k \in DOMAIN d THEN d[k] ELSE value]

\* d[key] = value
DictSet(d, key, value) ==
    [k \in DOMAIN d \cup {key} |-> IF k = key THEN value ELSE d[k]]

EmptyDict == [k \in {} |-> k]

\* a file that json.load parses to doc, and one that raises JSONDecodeError
ParsedFile(doc) == [parses |-> TRUE, doc |-> doc]

CorruptFile == [parses |-> FALSE, doc |-> EmptyDict]

NoFiles == [n \in {} |-> CorruptFile]

FileExists(store, name) == name \in DOMAIN store.files

\* open(file_path, 'w') + json.dump
WriteFile(store, name, doc) ==
    [dir |-> TRUE,
     files |-> [n \in DOMAIN store.files \cup {name} |->
                   IF n = name THEN ParsedFile(doc) ELSE store.files[n]]]

\* os.remove(file_path)
RemoveFile(store, name) ==
    [dir |-> store.dir, files |-> [n \in DOMAIN store.files \ {name} |-> store.files[n]]]

\* os.makedirs("tasks", exist_ok=True)
MakeDirs(store) == [dir |-> TRUE, files |-> store.files]

(***************************************************************************)
(* agent_tools.py                                                          *)
(***************************************************************************)
\* Python's None passed as task_data
NoneData == [py_none |-> TRUE]

ToolReturn(result, store) == [raised |-> FALSE, result |-> result, tasks |-> store]

ToolRaise(exception, store) == [raised |-> TRUE, result |-> exception, tasks |-> store]

\* the persistence faults of update_tasks: none, or the named call raises OSError
Faults == {"none", "remove", "makedirs", "open", "dump"}

\* open(file_path, 'w') succeeded and json.dump raised: the file is there, cut short
TruncateFile(store, name) ==
    [dir |-> TRUE,
     files |-> [n \in DOMAIN store.files \cup {name} |->
                   IF n = name THEN CorruptFile ELSE store.files[n]]]

update_tasks(store, action, task_name, task_data, fault) ==
    IF task_data = NoneData
    THEN \* task_data["intent_name"] = task_name on None
         ToolRaise("TypeError", store)
    ELSE LET data == DictSet(task_data, "intent_name", task_name) IN
         IF action = "delete"
         THEN IF FileExists(store, task_name)
              THEN IF fault = "remove"
                   THEN ToolReturn("Failed to delete task '" \o task_name \o "': OSError",
                                   store)
                   ELSE ToolReturn("Task '" \o task_name \o "' deleted successfully",
                                   RemoveFile(store, task_name))
              ELSE ToolReturn("Task '" \o task_name \o "' not found", store)
         ELSE IF fault = "makedirs" /\ ~store.dir
              THEN \* os.makedirs is outside every try block
                   ToolRaise("OSError", store)
         ELSE IF action = "add" /\ FileExists(store, task_name)
              THEN ToolReturn("Error: Task '" \o task_name \o "' already exists",
                              MakeDirs(store))
         ELSE IF action = "edit" /\ ~FileExists(store, task_name)
              THEN ToolReturn("Error: Task '" \o task_name \o "' not found",
                              MakeDirs(store))
         ELSE IF fault = "open"
              THEN ToolReturn("Failed to " \o action \o " task '" \o task_name
                                  \o "': OSError", MakeDirs(store))
         ELSE IF fault = "dump"
              THEN ToolReturn("Failed to " \o action \o " task '" \o task_name
                                  \o "': OSError", TruncateFile(store, task_name))
         ELSE ToolReturn("Task '" \o task_name \o "' " \o action \o "ed successfully",
                         WriteFile(store, task_name, data))

\* what the operating system does with the commands of the model in live mode:
\* subprocess.run returns a CompletedProcess or raises TimeoutExpired after 30 s
LiveShell(command) ==
    CASE Strip(command) = "pwd" ->
             [timeout |-> FALSE, returncode |-> 0, stdout |-> "/srv/app\n", stderr |-> ""]
      [] Strip(command) = "sleep 60" ->
             [timeout |-> TRUE, returncode |-> 0, stdout |-> "", stderr |-> ""]
      [] Strip(command) \in {"", "cd /"} ->
             [timeout |-> FALSE, returncode |-> 0, stdout |-> "", stderr |-> ""]
      [] Strip(command) = "false" ->
             [timeout |-> FALSE, returncode |-> 1, stdout |-> "", stderr |-> ""]
      [] OTHER ->
             [timeout |-> FALSE, returncode |-> 127, stdout |-> "",
              stderr |-> "sh: 1: " \o TakeWord(Strip(command)) \o ": not found\n"]

\* what run_shell does when subprocess.run raises TimeoutExpired: nothing catches it
ShellTimeout(dir) == EmuRaise("TimeoutExpired", dir)

\* the string, or the exception, of run_shell and the working directory it leaves
run_shell(test_mode, fs, dir, command) ==
    IF test_mode THEN execute(fs, dir, command)
    ELSE LET result == LiveShell(command) IN
         IF result.timeout THEN ShellTimeout(dir)
         ELSE IF result.returncode = 0 THEN EmuReturn(result.stdout, dir)
         ELSE EmuReturn("Command failed with return code " \o ToString(result.returncode)
                            \o ".\nSTDOUT: " \o result.stdout
                            \o "\nSTDERR: " \o result.stderr, dir)

(***************************************************************************)
(* agents.py: the Agent session                                            *)
(***************************************************************************)
\* one turn of a history.  content is the list of content blocks; the plain
\* string s that get_messages stores is written as the one block StrContent(s)
Turn(role, block) == [role |-> role, content |-> <<block>>]

StrContent(s) == [type |-> "string", text |-> s]

TextBlock(text) == [type |-> "text", text |-> text]

ToolUse(name, id, input) == [type |-> "tool_use", name |-> name, id |-> id, input |-> input]

ToolResult(id, content) == [type |-> "tool_result", tool_use_id |-> id, content |-> content]

UserTurn(text) == Turn("user", StrContent(text))

\* the tool_response of run_agent_loop: the id of the invocation it answers
tool_response(content, output) == Turn("user", ToolResult(content.id, output))

NoAgent ==
    [built |-> FALSE, intent |-> "", meta_mode |-> FALSE, test_mode |-> FALSE,
     goal |-> "", context |-> "{}", commands |-> <<>>, has_commands |-> FALSE,
     intent_loaded |-> FALSE]

SyntheticGoal(intent) == "Process " \o intent \o " requests"

\* the agent after load_intent_file; self.commands is assigned only when the file
\* parses; intent_loaded is the Boolean the method returns
load_intent_file(a, store, intent) ==
    IF FileExists(store, intent) /\ store.files[intent].parses
    THEN LET task_data == store.files[intent].doc IN
         [a EXCEPT !.goal = DictGet(task_data, "goal", SyntheticGoal(intent)),
                   !.context = DictGet(task_data, "context", "{}"),
                   !.commands = DictGet(task_data, "commands", <<>>),
                   !.has_commands = TRUE,
                   !.intent_loaded = TRUE]
    ELSE [a EXCEPT !.goal = SyntheticGoal(intent)]

\* save_agent_context that always starts from the document of the
\* JSONDecodeError branch
save_agent_context_fresh(store, intent, context, fault) ==
    IF fault = "makedirs" /\ ~store.dir
    THEN ToolRaise("OSError", store)
    ELSE IF ~FileExists(store, intent)
    THEN ToolRaise("Exception", MakeDirs(store))
    ELSE LET loaded == DictSet(EmptyDict, "goal", SyntheticGoal(intent))
             task_data == DictSet(loaded, "context", context)
         IN IF fault = "open" THEN ToolReturn("False", MakeDirs(store))
            ELSE IF fault = "dump" THEN ToolReturn("False", TruncateFile(store, intent))
            ELSE ToolReturn("True", WriteFile(store, intent, task_data))

\* what save_agent_context returns or raises and the store it leaves
save_agent_context(store, intent, context, fault) ==
    IF fault = "makedirs" /\ ~store.dir
    THEN ToolRaise("OSError", store)
    ELSE IF ~FileExists(store, intent)
    THEN ToolRaise("Exception", MakeDirs(store))
    ELSE LET loaded == IF store.files[intent].parses THEN store.files[intent].doc
                       ELSE DictSet(EmptyDict, "goal", SyntheticGoal(intent))
             task_data == DictSet(loaded, "context", context)
         IN IF fault = "open" THEN ToolReturn("False", MakeDirs(store))
            ELSE IF fault = "dump" THEN ToolReturn("False", TruncateFile(store, intent))
            ELSE ToolReturn("True", WriteFile(store, intent, task_data))

MetaGoal ==
    "Help the user with meta tasks like viewing available tasks and providing information"

\* Agent(intent, test_mode); intent "" stands for None
NewAgent(store, intent, test_mode) ==
    LET a == [NoAgent EXCEPT !.built = TRUE, !.intent = intent,
                             !.test_mode = test_mode, !.meta_mode = (intent = "")]
    IN IF a.meta_mode THEN [a EXCEPT !.goal = MetaGoal]
       ELSE load_intent_file(a, store, intent)

\* the tool names of self.tools_spec
tools_spec(a) ==
    {"send_message", "run_shell", "update_tasks"}
        \cup (IF a.meta_mode THEN {"list_tasks", "get_task_details"} ELSE {})

\* get_messages reads self.commands when it formats the task-mode prompt
PromptRaises(a) == ~a.meta_mode /\ ~a.has_commands

\* "- name: goal" of one task file
TaskLine(store, name) ==
    IF store.files[name].parses
    THEN "- " \o name \o ": "
             \o DictGet(store.files[name].doc, "goal", "No goal specified") \o "\n"
    ELSE "- " \o name \o ": [Error: Could not parse task file]\n"

RECURSIVE TaskLines(_, _)
TaskLines(store, names) ==
    IF Len(names) = 0 THEN ""
    ELSE TaskLine(store, names[1]) \o TaskLines(store, Tail(names))

list_available_tasks(store) ==
    IF ~store.dir THEN "No tasks directory found."
    ELSE IF DOMAIN store.files = {} THEN "No tasks found in tasks directory."
    ELSE "Available tasks:\n\n" \o TaskLines(store, Sorted(DOMAIN store.files))

RECURSIVE NumberedCommands(_, _)
NumberedCommands(commands, i) ==
    IF i > Len(commands) THEN ""
    ELSE ToString(i) \o ". " \o commands[i] \o "\n" \o NumberedCommands(commands, i + 1)

get_task_details(store, task_name) ==
    IF ~FileExists(store, task_name) THEN "Task '" \o task_name \o "' not found."
    ELSE IF ~store.files[task_name].parses
    THEN "Error: Could not parse task file for '" \o task_name \o "'."
    ELSE LET task_data == store.files[task_name].doc
             context == DictGet(task_data, "context", "{}")
             commands == DictGet(task_data, "commands", <<>>)
         IN "Task: " \o task_name \o "\n\n"
            \o "Goal: " \o DictGet(task_data, "goal", "No goal specified") \o "\n\n"
            \o (IF context # "{}" THEN "Context:\n" \o context \o "\n\n"
                ELSE "Context: No context information available.\n\n")
            \o (IF Len(commands) > 0 THEN "Commands:\n" \o NumberedCommands(commands, 1)
                ELSE "Commands: No commands defined.\n")

(***************************************************************************)
(* What the session is given: task stores, intents, user messages,         *)
(* histories of the caller and completions of the provider.                *)
(***************************************************************************)
DeployDoc ==
    DictSet(DictSet(DictSet(EmptyDict, "intent_name", "deploy"),
                    "goal", "Deploy the app"), "commands", <<"git pull">>)

\* task_data of an update_tasks request, without intent_name
NewTaskData == DictSet(EmptyDict, "goal", "Deploy fast")

InitialStores ==
    {[dir |-> FALSE, files |-> NoFiles],
     [dir |-> TRUE, files |-> [n \in {"deploy"} |-> CorruptFile]],
     [dir |-> TRUE, files |-> [n \in {"deploy"} |-> ParsedFile(DeployDoc)]]}

\* "" stands for None
Intents == {"", "deploy"}

\* the message of the n-th invocation
UserInputs == <<"restart nginx", "status please", "thanks", "bye">>

AssistantText(text) == Turn("assistant", TextBlock(text))

\* histories a caller passes: empty, or alternating and ending with an assistant turn
InputHistories == {<<>>, <<UserTurn("hello"), AssistantText("hi, how can I help?")>>}

ShellCommands == {"pwd", "", "sleep 60", "false", "cd /"}

UpdateInputs ==
    {[action |-> "add", task_name |-> "deploy", task_data |-> NewTaskData],
     [action |-> "edit", task_name |-> "deploy"],
     [action |-> "delete", task_name |-> "deploy"],
     [action |-> "add", task_name |-> "backup", task_data |-> NoneData]}

\* the content blocks a completion is made of; the ids are set by Stamp
Blocks ==
    {TextBlock("On it.")}
        \cup {ToolUse("send_message", "", [message |-> "Done."])}
        \cup {ToolUse("run_shell", "", [command |-> c]) : c \in ShellCommands}
        \cup {ToolUse("update_tasks", "", i) : i \in UpdateInputs}
        \cup {ToolUse("list_tasks", "", EmptyDict)}
        \cup {ToolUse("get_task_details", "", [task_name |-> "deploy"])}

Completions == UNION {[1..n -> Blocks] : n \in 0..MaxBlocks}

\* the completion that costs nothing of MaxVaried
PlainCompletion == <<ToolUse("run_shell", "", [command |-> "pwd"])>>

Cost(c) == IF c = PlainCompletion THEN 0 ELSE IF Len(c) = 0 THEN 1 ELSE Len(c)

\* the completions that cost at most budget
Affordable(budget) ==
    {PlainCompletion}
        \cup UNION {[1..n -> Blocks] :
                       n \in (IF budget >= 1 THEN 0 ELSE 1)
                                ..(IF budget < MaxBlocks THEN budget ELSE MaxBlocks)}

\* the provider gives every tool_use block an id of its own
Stamp(c, invocation, call) ==
    [i \in 1..Len(c) |->
        IF c[i].type = "tool_use"
        THEN [c[i] EXCEPT !.id = "toolu_" \o ToString(invocation) \o "_"
                                      \o ToString(call) \o "_" \o ToString(i)]
        ELSE c[i]]

NoException == [type |-> "", origin |-> ""]

Exception(type, origin) == [type |-> type, origin |-> origin]

NoWindow == [state |-> "none", turns |-> <<>>]

NoOutput == [command |-> "", raised |-> FALSE, out |-> ""]

NoFileCall == [op |-> "none", path |-> "", result |-> FALSE, before |-> EmptyDir]

NoSaveCall ==
    [called |-> FALSE, intent |-> "", context |-> "", raised |-> FALSE, result |-> "",
     fault |-> "none", before |-> [dir |-> FALSE, files |-> NoFiles]]

NoToolCall ==
    [called |-> FALSE, action |-> "", task_name |-> "", task_data |-> NoneData,
     supplied |-> FALSE, fault |-> "none", raised |-> FALSE, result |-> "",
     before |-> [dir |-> FALSE, files |-> NoFiles]]

(***************************************************************************)
(* agents.py: run_agent_loop                                               *)
(***************************************************************************)
\* the list the local name history is bound to
History == IF hist_ref = "default" THEN default_history ELSE arg_history

\* history.append and the like change that list in place
SetHistory(h) ==
    IF hist_ref = "default"
    THEN default_history' = h /\ UNCHANGED arg_history
    ELSE arg_history' = h /\ UNCHANGED default_history

\* the closing turn given the role of the user
PlaceholderAsUser == UserTurn("waiting for more messages")

Placeholder == AssistantText("waiting for more messages")

\* the repair left out
NeedsRepairNever(h) == FALSE

\* "if history and history[-1]['role'] == 'user'" after the loop
NeedsRepair(h) == Len(h) > 0 /\ h[Len(h)].role = "user"

\* the tools whose branch sets do_loop
ContinuingTools == {"run_shell", "update_tasks", "list_tasks", "get_task_details"}

\* the completion holds a request for one of the tools that set do_loop
HasContinuing(c) ==
    \E i \in 1..Len(c) : c[i].type = "tool_use" /\ c[i].name \in ContinuingTools

\* the two appends in the wrong order
WithResultFirst(h, content, output) ==
    Append(Append(h, tool_response(content, output)), Turn("assistant", content))

\* the turns the for loop appends for an assistant block and the result of its tool
WithResult(h, content, output) ==
    Append(Append(h, Turn("assistant", content)), tool_response(content, output))

\* agent = Agent(intent, test_mode)
Construct(intent, test_mode) ==
    /\ pc = "new"
    /\ agent' = NewAgent(tasks, intent, test_mode)
    /\ file_system' = DefaultFileSystem
    /\ current_dir' = HomeDir
    /\ pc' = "idle"
    /\ UNCHANGED <<tasks, loopVars, exc, fileVars, emu_out, file_call, tool_call, save_call, pairVars, textVars>>

\* run_agent_loop(user_input) or run_agent_loop(user_input, h) is called: lines 421-426
StartLoop(with_arg, h) ==
    /\ pc \in {"idle", "done", "raised"}
    /\ inv < MaxInvocations
    /\ varied + (IF inv > 0 THEN 1 ELSE 0) <= MaxVaried
    /\ varied' = varied + (IF inv > 0 THEN 1 ELSE 0)
    /\ only_shell' = TRUE
    /\ inv' = inv + 1
    /\ earlier_inputs' =
           IF inv > 0 /\ hist_ref = "default" THEN earlier_inputs \cup {user_input}
           ELSE earlier_inputs
    /\ user_input' = UserInputs[inv + 1]
    /\ hist_ref' = IF with_arg THEN "arg" ELSE "default"
    /\ arg_history' = IF with_arg THEN h ELSE arg_history
    /\ start_history' = IF with_arg THEN h ELSE default_history
    /\ msgs' = <<>>
    /\ do_loop' = TRUE
    /\ it' = -1
    /\ response' = <<>>
    /\ pos' = 1
    /\ calls' = 0
    /\ logged' = FALSE
    /\ exc' = NoException
    /\ pc' = "head"
    /\ UNCHANGED <<tasks, agent, emuVars, default_history, fileVars, emu_out, file_call, tool_call, save_call, pairVars, textVars>>

\* the user's message given to get_messages in every iteration
current_input_always(iteration, text) == text

\* "if it == 0": current_input, else "Next action:"
current_input(iteration, text) == IF iteration = 0 THEN text ELSE "Next action:"

\* the head of the for loop goes on to the next iteration: get_messages formats the
\* prompt, appends the user turn and calls the provider
Iterate ==
    /\ pc = "head"
    /\ it + 1 < MaxIterations
    /\ do_loop
    /\ it' = it + 1
    /\ do_loop' = FALSE
    /\ IF PromptRaises(agent)
       THEN /\ pc' = "raised"
            /\ exc' = Exception("AttributeError", "get_messages")
            /\ UNCHANGED <<default_history, arg_history>>
       ELSE /\ SetHistory(Append(History,
                       UserTurn(current_input(it + 1, user_input))))
            /\ pc' = "await"
            /\ exc' = exc
    /\ UNCHANGED <<tasks, agent, emuVars, hist_ref, user_input, msgs, response, pos,
                   calls, logged, inv, earlier_inputs, varied, only_shell,
                   start_history, fileVars, emu_out, file_call, tool_call, save_call, pairVars, textVars>>

RequestsShell(c) ==
    \E i \in 1..Len(c) : c[i].type = "tool_use" /\ c[i].name = "run_shell"

\* get_messages returns the completion c: response.content is set, the for loop starts
Answered(c) ==
    /\ pc = "await"
    /\ calls' = calls + 1
    /\ only_shell' = (only_shell /\ RequestsShell(c))
    /\ response' = Stamp(c, inv, calls + 1)
    /\ pos' = 1
    /\ pc' = IF Len(c) = 0 THEN "head" ELSE "blocks"
    /\ UNCHANGED <<tasks, agent, emuVars, default_history, arg_history, hist_ref,
                   user_input, msgs, it, do_loop, logged, inv, earlier_inputs,
                   start_history, exc, fileVars, emu_out, file_call, tool_call, save_call, pairVars, textVars>>

\* the provider answers the call with the completion c
Complete(c) ==
    /\ c \in Completions
    /\ varied + Cost(c) <= MaxVaried
    /\ varied' = varied + Cost(c)
    /\ Answered(c)

\* after a block: the next block, or the head of the for loop
NextBlock ==
    /\ pos' = pos + 1
    /\ pc' = IF pos + 1 > Len(response) THEN "head" ELSE "blocks"

\* "for content in response.content": one block
ProcessBlock ==
    /\ pc = "blocks"
    /\ LET content == response[pos] IN
       IF content.type = "text"
       THEN /\ msgs' = Append(msgs, content.text)
            /\ SetHistory(Append(History, Turn("assistant", content)))
            /\ NextBlock
            /\ UNCHANGED <<tasks, emuVars, do_loop, exc>>
       ELSE IF content.name = "send_message"
       THEN /\ msgs' = Append(msgs, content.input.message)
            /\ SetHistory(WithResult(History, content, "Message sent"))
            /\ NextBlock
            /\ UNCHANGED <<tasks, emuVars, do_loop, exc>>
       ELSE IF content.name = "run_shell"
       THEN LET command == content.input.command
                output == run_shell(agent.test_mode, file_system, current_dir, command)
            IN /\ msgs' = Append(msgs, "[DEBUG LOG] RUNNING SHELL COMMAND: " \o command)
               /\ current_dir' = output.current_dir
               /\ UNCHANGED <<tasks, file_system>>
               /\ IF output.raised
                  THEN /\ SetHistory(Append(History, Turn("assistant", content)))
                       /\ pc' = "raised"
                       /\ exc' = Exception(output.out, "run_shell")
                       /\ UNCHANGED <<pos, do_loop>>
                  ELSE /\ SetHistory(WithResult(History, content, output.out))
                       /\ do_loop' = TRUE
                       /\ NextBlock
                       /\ exc' = exc
       ELSE IF content.name = "update_tasks"
       THEN LET task_data == DictGet(content.input, "task_data", EmptyDict)
                result == update_tasks(tasks, content.input.action,
                                       content.input.task_name, task_data, "none")
            IN /\ tasks' = result.tasks
               /\ UNCHANGED <<emuVars, msgs>>
               /\ IF result.raised
                  THEN /\ pc' = "raised"
                       /\ exc' = Exception(result.result, "update_tasks")
                       /\ UNCHANGED <<pos, do_loop, default_history, arg_history>>
                  ELSE /\ SetHistory(WithResult(History, content, result.result))
                       /\ do_loop' = TRUE
                       /\ NextBlock
                       /\ exc' = exc
       ELSE IF content.name = "list_tasks"
       THEN /\ SetHistory(WithResult(History, content, list_available_tasks(tasks)))
            /\ do_loop' = TRUE
            /\ NextBlock
            /\ UNCHANGED <<tasks, emuVars, msgs, exc>>
       ELSE IF content.name = "get_task_details"
       THEN /\ SetHistory(WithResult(History, content,
                                     get_task_details(tasks, content.input.task_name)))
            /\ do_loop' = TRUE
            /\ NextBlock
            /\ UNCHANGED <<tasks, emuVars, msgs, exc>>
       ELSE \* a tool_use block of another name: no branch handles it
            /\ NextBlock
            /\ UNCHANGED <<tasks, emuVars, msgs, do_loop, exc, default_history,
                           arg_history>>
    /\ UNCHANGED <<agent, hist_ref, user_input, it, response, calls, logged, inv,
                   earlier_inputs, varied, only_shell, start_history, fileVars,
                   emu_out, file_call, tool_call, save_call, pairVars, textVars>>

\* the value of it when the for loop is left: range(12) is used up, or the head
\* assigned the next value and the "if not do_loop" test broke out
ItAtExit == IF it + 1 < MaxIterations THEN it + 1 ELSE it

\* the for loop is left; lines 544-549: the log line, the repair, the return
Finish ==
    /\ pc = "head"
    /\ (it + 1 >= MaxIterations \/ ~do_loop)
    /\ it' = ItAtExit
    /\ logged' = (ItAtExit = MaxIterations - 1)
    /\ SetHistory(IF NeedsRepair(History) THEN Append(History, Placeholder) ELSE History)
    /\ pc' = "done"
    /\ UNCHANGED <<tasks, agent, emuVars, hist_ref, user_input, msgs, do_loop, response,
                   pos, calls, inv, earlier_inputs, varied, only_shell, start_history,
                   exc, fileVars, emu_out, file_call, tool_call, save_call, pairVars, textVars>>

Init ==
    /\ tasks \in InitialStores
    /\ agent = NoAgent
    /\ file_system = DefaultFileSystem
    /\ current_dir = HomeDir
    /\ default_history = <<>>
    /\ arg_history = <<>>
    /\ hist_ref = "arg"
    /\ user_input = ""
    /\ msgs = <<>>
    /\ it = -1
    /\ do_loop = FALSE
    /\ response = <<>>
    /\ pos = 1
    /\ pc = "new"
    /\ calls = 0
    /\ logged = FALSE
    /\ exc = NoException
    /\ start_history = <<>>
    /\ inv = 0
    /\ earlier_inputs = {}
    /\ varied = 0
    /\ only_shell = FALSE
    /\ history_file = [exists |-> FALSE, parses |-> FALSE, turns |-> <<>>]
    /\ window = [state |-> "none", turns |-> <<>>]
    /\ emu_out = NoOutput
    /\ file_call = NoFileCall
    /\ tool_call = NoToolCall
    /\ save_call = NoSaveCall
    /\ heap = <<>>
    /\ emulators = <<>>
    /\ responses = <<>>
    /\ sessions = <<>>

Next ==
    \/ \E intent \in Intents, test_mode \in BOOLEAN : Construct(intent, test_mode)
    \/ StartLoop(FALSE, <<>>)
    \/ \E h \in InputHistories : StartLoop(TRUE, h)
    \/ Iterate
    \/ \E c \in Affordable(MaxVaried - varied) : Complete(c)
    \/ ProcessBlock
    \/ Finish

Spec == Init /\ [][Next]_vars

(***************************************************************************)
(* utils.py: the persisted history, data/history.json                      *)
(***************************************************************************)
NoHistoryFile == [exists |-> FALSE, parses |-> FALSE, turns |-> <<>>]

\* a file json.load raises JSONDecodeError on
CorruptHistoryFile == [exists |-> TRUE, parses |-> FALSE, turns |-> <<>>]

HistoryFile(turns) == [exists |-> TRUE, parses |-> TRUE, turns |-> turns]

Returned(turns) == [state |-> "returned", turns |-> turns]

\* an IndexError leaves read_history_from_file: only JSONDecodeError is caught
ReadRaised == [state |-> "raised", turns |-> <<>>]

\* history[-n:]
LastN(history, n) ==
    IF Len(history) <= n THEN history
    ELSE SubSeq(history, Len(history) - n + 1, Len(history))

\* isinstance(turn['content'], str)
IsStr(turn) == turn.content[1].type = "string"

\* the second test of the while loop
StartsWithToolResult(turn) == ~IsStr(turn) /\ turn.content[1].type = "tool_result"

\* one pass of the "while True" loop: "again" when shall_break was set to False,
\* "returned" at the break, "raised" when a test indexes the empty list
TrimPass(recent_history) ==
    IF Len(recent_history) = 0 THEN [state |-> "raised", turns |-> <<>>]
    ELSE LET not_user == recent_history[1].role # "user"
             r1 == IF not_user THEN Tail(recent_history) ELSE recent_history
         IN IF Len(r1) = 0 THEN [state |-> "raised", turns |-> <<>>]
            ELSE LET result_first == StartsWithToolResult(r1[1])
                     r2 == IF result_first THEN Tail(r1) ELSE r1
                 IN [state |-> IF ~not_user /\ ~result_first THEN "returned" ELSE "again",
                     turns |-> r2]

\* the loop left after its first pass
TrimLeadingOnePass(recent_history) ==
    LET pass == TrimPass(recent_history)
    IN IF pass.state = "raised" THEN ReadRaised ELSE Returned(pass.turns)

\* the loop without its tool_result test
RECURSIVE TrimLeadingRoleOnly(_)
TrimLeadingRoleOnly(recent_history) ==
    IF Len(recent_history) = 0 THEN ReadRaised
    ELSE IF recent_history[1].role # "user" THEN TrimLeadingRoleOnly(Tail(recent_history))
    ELSE Returned(recent_history)

\* the "while True" loop of read_history_from_file; each test reads recent_history[0]
RECURSIVE TrimLeading(_)
TrimLeading(recent_history) ==
    IF Len(recent_history) = 0 THEN ReadRaised
    ELSE LET not_user == recent_history[1].role # "user"
             r1 == IF not_user THEN Tail(recent_history) ELSE recent_history
         IN IF Len(r1) = 0 THEN ReadRaised
            ELSE LET result_first == StartsWithToolResult(r1[1])
                     r2 == IF result_first THEN Tail(r1) ELSE r1
                 IN IF ~not_user /\ ~result_first THEN Returned(r2)
                    ELSE TrimLeading(r2)

read_history_from_file(file) ==
    IF file.exists
    THEN IF file.parses THEN TrimLeading(LastN(file.turns, HistoryWindow))
         ELSE Returned(<<>>)
    ELSE Returned(<<>>)

\* the turns a persisted history is made of, as the reader tells them apart
FileTurns ==
    {UserTurn("restart nginx"),
     Turn("user", ToolResult("toolu_1_1_1", "/home/pablo")),
     Turn("assistant", ToolUse("run_shell", "toolu_1_1_1", [command |-> "pwd"]))}

\* write_history_to_file of an earlier session left a history one turn longer
ExtendFile(turn) ==
    /\ pc = "file"
    /\ history_file.parses
    /\ window = NoWindow
    /\ Len(history_file.turns) < MaxFileLen
    /\ history_file' = HistoryFile(Append(history_file.turns, turn))
    /\ UNCHANGED <<tasks, agent, emuVars, loopVars, pc, exc, window, emu_out, file_call, tool_call, save_call, pairVars, textVars>>

\* history = await read_history_from_file()
ReadHistory ==
    /\ pc = "file"
    /\ window = NoWindow
    /\ window' = read_history_from_file(history_file)
    /\ UNCHANGED <<tasks, agent, emuVars, loopVars, pc, exc, history_file, emu_out, file_call, tool_call, save_call, pairVars, textVars>>

InitHist ==
    /\ tasks = [dir |-> FALSE, files |-> NoFiles]
    /\ agent = NoAgent
    /\ file_system = DefaultFileSystem
    /\ current_dir = HomeDir
    /\ default_history = <<>>
    /\ arg_history = <<>>
    /\ hist_ref = "arg"
    /\ user_input = ""
    /\ msgs = <<>>
    /\ it = -1
    /\ do_loop = FALSE
    /\ response = <<>>
    /\ pos = 1
    /\ pc = "file"
    /\ calls = 0
    /\ logged = FALSE
    /\ exc = NoException
    /\ start_history = <<>>
    /\ inv = 0
    /\ earlier_inputs = {}
    /\ varied = 0
    /\ only_shell = FALSE
    /\ history_file \in {NoHistoryFile, CorruptHistoryFile, HistoryFile(<<>>)}
    /\ window = NoWindow
    /\ emu_out = NoOutput
    /\ file_call = NoFileCall
    /\ tool_call = NoToolCall
    /\ save_call = NoSaveCall
    /\ heap = <<>>
    /\ emulators = <<>>
    /\ responses = <<>>
    /\ sessions = <<>>

NextHist ==
    \/ \E turn \in FileTurns : ExtendFile(turn)
    \/ ReadHistory

SpecHist == InitHist /\ [][NextHist]_vars

(***************************************************************************)
(* services.py: process_text, one call per message of the user             *)
(***************************************************************************)
\* calls of process_text that reach run_agent_loop, in one session
MaxTexts == 2

\* completions of one session that request a tool which continues the loop
MaxRounds == 2

\* the turn process_text appends when the window ends with a user turn
Listening == AssistantText("I'm listening, how can I help you?")

\* "if history and history[-1]['role'] == 'user'": history.append(...)
Resumed(history) ==
    IF Len(history) > 0 /\ history[Len(history)].role = "user"
    THEN Append(history, Listening)
    ELSE history

\* classify_context up to the provider call: os.listdir and json.load of every task
\* file, intent['goal'] of every document that has an intent_name; "" is no exception
ClassifyRaises(store) ==
    IF ~store.dir THEN "FileNotFoundError"
    ELSE IF \E n \in DOMAIN store.files : ~store.files[n].parses THEN "JSONDecodeError"
    ELSE IF \E n \in DOMAIN store.files :
                /\ "intent_name" \in DOMAIN store.files[n].doc
                /\ "goal" \notin DOMAIN store.files[n].doc
         THEN "KeyError"
    ELSE ""

\* the return of the no-match branch left out
GenericResponseNone == <<>>

\* what process_text returns when classify_context returned None
GenericResponse ==
    <<"Intent not identified, I'm your devops assistant, ask me to create, edit or remove a devops task or to execute an existing devops task">>

\* write_history_to_file(history)
write_history_to_file(history) == HistoryFile(history)

\* one completion with a send_message block for each of five messages
BurstCompletion == [i \in 1..5 |-> ToolUse("send_message", "", [message |-> "Done."])]

\* the completions the provider gives in a session of process_text
TextCompletions ==
    {PlainCompletion, BurstCompletion, <<TextBlock("On it.")>>,
     <<ToolUse("send_message", "", [message |-> "Done."])>>,
     <<ToolUse("list_tasks", "", EmptyDict)>>}

\* process_text(text, test_mode) up to the first completion call of run_agent_loop;
\* classification is what classify_context extracts from the provider's answer
ProcessText(classification, test_mode) ==
    /\ pc \in {"text", "raised"}
    /\ inv < MaxTexts
    /\ LET read == read_history_from_file(history_file)
           history == Resumed(read.turns)
           raises == ClassifyRaises(tasks)
       IN /\ window' = read
          /\ IF read.state = "raised"
             THEN /\ pc' = "raised"
                  /\ responses' = <<>>
                  /\ exc' = Exception("IndexError", "read_history_from_file")
                  /\ UNCHANGED <<agent, emuVars, loopVars>>
             ELSE IF raises # ""
             THEN /\ pc' = "raised"
                  /\ responses' = <<>>
                  /\ exc' = Exception(raises, "classify_context")
                  /\ UNCHANGED <<agent, emuVars, loopVars>>
             ELSE IF classification = ""
             THEN /\ pc' = "text"
                  /\ exc' = NoException
                  /\ responses' = GenericResponse
                  /\ UNCHANGED <<agent, emuVars, loopVars>>
             ELSE /\ agent' = NewAgent(tasks, classification, test_mode)
                  /\ file_system' = DefaultFileSystem
                  /\ current_dir' = HomeDir
                  /\ inv' = inv + 1
                  /\ user_input' = UserInputs[inv + 1]
                  /\ hist_ref' = "arg"
                  /\ arg_history' = history
                  /\ start_history' = history
                  /\ msgs' = <<>>
                  /\ do_loop' = TRUE
                  /\ it' = -1
                  /\ response' = <<>>
                  /\ pos' = 1
                  /\ calls' = 0
                  /\ logged' = FALSE
                  /\ only_shell' = TRUE
                  /\ exc' = NoException
                  /\ pc' = "head"
                  /\ responses' = <<>>
                  /\ UNCHANGED <<default_history, earlier_inputs, varied>>
    /\ UNCHANGED <<tasks, history_file, emu_out, file_call, tool_call, save_call, pairVars, sessions>>

\* the provider answers a completion call of the session
CompleteText(c) ==
    /\ c \in TextCompletions
    /\ varied + (IF HasContinuing(c) THEN 1 ELSE 0) <= MaxRounds
    /\ varied' = varied + (IF HasContinuing(c) THEN 1 ELSE 0)
    /\ Answered(c)

\* run_agent_loop returned: await write_history_to_file(new_history); return responses
WriteHistory ==
    /\ pc = "done"
    /\ history_file' = write_history_to_file(History)
    /\ responses' = msgs
    /\ pc' = "text"
    /\ UNCHANGED <<tasks, agent, emuVars, loopVars, exc, window, emu_out, file_call, tool_call, save_call, pairVars, sessions>>

InitText ==
    /\ tasks \in InitialStores
    /\ agent = NoAgent
    /\ file_system = DefaultFileSystem
    /\ current_dir = HomeDir
    /\ default_history = <<>>
    /\ arg_history = <<>>
    /\ hist_ref = "arg"
    /\ user_input = ""
    /\ msgs = <<>>
    /\ it = -1
    /\ do_loop = FALSE
    /\ response = <<>>
    /\ pos = 1
    /\ pc = "text"
    /\ calls = 0
    /\ logged = FALSE
    /\ exc = NoException
    /\ start_history = <<>>
    /\ inv = 0
    /\ earlier_inputs = {}
    /\ varied = 0
    /\ only_shell = FALSE
    /\ history_file = NoHistoryFile
    /\ window = NoWindow
    /\ emu_out = NoOutput
    /\ file_call = NoFileCall
    /\ tool_call = NoToolCall
    /\ save_call = NoSaveCall
    /\ heap = <<>>
    /\ emulators = <<>>
    /\ responses = <<>>
    /\ sessions = <<>>

NextText ==
    \/ \E classification \in Intents, test_mode \in BOOLEAN :
           ProcessText(classification, test_mode)
    \/ Iterate
    \/ \E c \in TextCompletions : CompleteText(c)
    \/ ProcessBlock
    \/ Finish
    \/ WriteHistory

SpecText == InitText /\ [][NextText]_vars

(***************************************************************************)
(* services.py: process_text calls that overlap.  process_text is a        *)
(* coroutine: while one call awaits the provider, the event loop may run   *)
(* another call up to its own await.  Nothing in process_text or utils.py  *)
(* takes a lock on data/history.json.                                      *)
(***************************************************************************)
\* the locals of the process_text call that is running: the agent with its emulator
\* and the frame of run_agent_loop
Locals ==
    [agent |-> agent, file_system |-> file_system, current_dir |-> current_dir,
     arg_history |-> arg_history, hist_ref |-> hist_ref, user_input |-> user_input,
     msgs |-> msgs, it |-> it, do_loop |-> do_loop, response |-> response, pos |-> pos,
     calls |-> calls, logged |-> logged, start_history |-> start_history,
     only_shell |-> only_shell]

\* the frame l becomes the running one
Restore(l) ==
    /\ agent' = l.agent
    /\ file_system' = l.file_system
    /\ current_dir' = l.current_dir
    /\ arg_history' = l.arg_history
    /\ hist_ref' = l.hist_ref
    /\ user_input' = l.user_input
    /\ msgs' = l.msgs
    /\ it' = l.it
    /\ do_loop' = l.do_loop
    /\ response' = l.response
    /\ pos' = l.pos
    /\ calls' = l.calls
    /\ logged' = l.logged
    /\ start_history' = l.start_history
    /\ only_shell' = l.only_shell

\* the running call awaits the provider in get_messages and the event loop is free
\* to start another call
Suspend ==
    /\ pc = "await"
    /\ sessions = <<>>
    /\ inv < MaxTexts
    /\ sessions' = <<Locals>>
    /\ pc' = "text"
    /\ UNCHANGED <<tasks, agent, emuVars, loopVars, exc, fileVars, emu_out, file_call,
                   tool_call, save_call, pairVars, responses>>

\* the event loop goes back to the suspended call: the other call has ended, or
\* awaits the provider itself and is suspended in its turn
Resume ==
    /\ Len(sessions) = 1
    /\ pc \in {"await", "text", "raised"}
    /\ Restore(sessions[1])
    /\ sessions' = IF pc = "await" THEN <<Locals>> ELSE <<>>
    /\ pc' = "await"
    /\ UNCHANGED <<tasks, default_history, inv, earlier_inputs, varied, exc, fileVars,
                   emu_out, file_call, tool_call, save_call, pairVars, responses>>

InitRace ==
    /\ tasks \in InitialStores
    /\ agent = NoAgent
    /\ file_system = DefaultFileSystem
    /\ current_dir = HomeDir
    /\ default_history = <<>>
    /\ arg_history = <<>>
    /\ hist_ref = "arg"
    /\ user_input = ""
    /\ msgs = <<>>
    /\ it = -1
    /\ do_loop = FALSE
    /\ response = <<>>
    /\ pos = 1
    /\ pc = "text"
    /\ calls = 0
    /\ logged = FALSE
    /\ exc = NoException
    /\ start_history = <<>>
    /\ inv = 0
    /\ earlier_inputs = {}
    /\ varied = 0
    /\ only_shell = FALSE
    /\ history_file = NoHistoryFile
    /\ window = NoWindow
    /\ emu_out = NoOutput
    /\ file_call = NoFileCall
    /\ tool_call = NoToolCall
    /\ save_call = NoSaveCall
    /\ heap = <<>>
    /\ emulators = <<>>
    /\ responses = <<>>
    /\ sessions = <<>>

NextRace ==
    \/ \E classification \in Intents, test_mode \in BOOLEAN :
           ProcessText(classification, test_mode)
    \/ Iterate
    \/ \E c \in TextCompletions : CompleteText(c)
    \/ ProcessBlock
    \/ Finish
    \/ WriteHistory
    \/ Suspend
    \/ Resume

SpecRace == InitRace /\ [][NextRace]_vars

(***************************************************************************)
(* unix_emulator.py: the emulator called directly                          *)
(***************************************************************************)
\* the tree the example at the end of unix_emulator.py builds
ExampleFileSystem ==
    SetEntry(EmptyDir, "/",
        SetEntry(EmptyDir, "home",
            SetEntry(EmptyDir, "pablo",
                SetEntry(EmptyDir, "motionapps",
                    SetEntry(SetEntry(SetEntry(EmptyDir, "README.md", EmptyDir),
                                      ".git", EmptyDir),
                             "src", SetEntry(EmptyDir, "main.py", EmptyDir))))))

EmuCommands ==
    {"", "   ", "pwd", " pwd ", "cd", "cd ~", "cd /", "cd ..", "cd motionapps",
     "cd /home", "cd /nonexistent", "cd ./motionapps/../motionapps/src", "cd ../..",
     "ls", "ls -a", "ls motionapps", "ls -a motionapps", "ls ..", "ls /home/pablo",
     "ls /nonexistent", "git pull", "git pull origin main", "git", "git status",
     "reboot", "reboot now", "sudo reboot", "sudo reboot now", "sudo", "sudo cd /",
     "sudo ls", "sudo pwd", "uname", "uname -a",
     "uname -r", "uname -x", "whoami", "echo hi", "rm -rf /", "pwdx",
     "cd my-app", "ls my-app", "ls -a my-app", "ls .", "ls ./motionapps",
     "ls //home", "cd //home", "cd /home/pablo/..", "ls /home/pablo/..",
     "ls motionapps/"}

\* emulator.execute(command)
Execute(command) ==
    /\ pc = "emu"
    /\ LET r == execute(file_system, current_dir, command) IN
       /\ current_dir' = r.current_dir
       /\ emu_out' = [command |-> command, raised |-> r.raised, out |-> r.out]
    /\ file_call' = NoFileCall
    /\ UNCHANGED <<tasks, agent, file_system, loopVars, pc, exc, fileVars, tool_call, save_call, pairVars, textVars>>

InitEmu ==
    /\ tasks = [dir |-> FALSE, files |-> NoFiles]
    /\ agent = NoAgent
    /\ file_system \in {DefaultFileSystem, ExampleFileSystem}
    /\ current_dir = HomeDir
    /\ default_history = <<>>
    /\ arg_history = <<>>
    /\ hist_ref = "arg"
    /\ user_input = ""
    /\ msgs = <<>>
    /\ it = -1
    /\ do_loop = FALSE
    /\ response = <<>>
    /\ pos = 1
    /\ pc = "emu"
    /\ calls = 0
    /\ logged = FALSE
    /\ exc = NoException
    /\ start_history = <<>>
    /\ inv = 0
    /\ earlier_inputs = {}
    /\ varied = 0
    /\ only_shell = FALSE
    /\ history_file = NoHistoryFile
    /\ window = NoWindow
    /\ emu_out = NoOutput
    /\ file_call = NoFileCall
    /\ tool_call = NoToolCall
    /\ save_call = NoSaveCall
    /\ heap = <<>>
    /\ emulators = <<>>
    /\ responses = <<>>
    /\ sessions = <<>>

\* the paths the caller hands to add_file and remove_file
FilePaths ==
    {"/", "/home/pablo", "/home/pablo/my-app/.env"}

\* the content argument of add_file: left out (None) or {}, as the example passes it
FileContents == {EmptyDir}

\* emulator.add_file(path, content)
AddFile(path, content) ==
    /\ pc = "emu"
    /\ file_system' = add_file(file_system, path, content)
    /\ file_call' = [op |-> "add_file", path |-> path, result |-> FALSE,
                     before |-> file_system]
    /\ emu_out' = NoOutput
    /\ UNCHANGED <<tasks, agent, current_dir, loopVars, pc, exc, fileVars, tool_call, save_call, pairVars, textVars>>

\* emulator.remove_file(path)
RemoveFileCall(path) ==
    /\ pc = "emu"
    /\ LET r == remove_file(file_system, path) IN
       /\ file_system' = r.file_system
       /\ file_call' = [op |-> "remove_file", path |-> path, result |-> r.result,
                        before |-> file_system]
    /\ emu_out' = NoOutput
    /\ UNCHANGED <<tasks, agent, current_dir, loopVars, pc, exc, fileVars, tool_call, save_call, pairVars, textVars>>

NextEmu ==
    \/ \E command \in EmuCommands : Execute(command)
    \/ \E path \in FilePaths, content \in FileContents : AddFile(path, content)
    \/ \E path \in FilePaths : RemoveFileCall(path)

SpecEmu == InitEmu /\ [][NextEmu]_vars

(***************************************************************************)
(* unix_emulator.py: the emulators of two AgentTools instances.  The       *)
(* dictionaries live in heap and an emulator holds references to them, so  *)
(* that two emulators can hold the same dictionary.                        *)
(***************************************************************************)
\* calls made on the two emulators together
MaxCalls == 3

\* the two AgentTools instances
Instances == {1, 2}

\* the reference of the dictionary the caller passes as file_system
CallerDict == 1

\* custom_commands is None: __init__ evaluates the dictionary displays of the
\* default tree and of the registry anew, so both are objects no one else holds
DefaultEmulatorOfCallerDict(h) ==
    [heap |-> Append(h, BuiltinCommands),
     emulator |-> [file_system |-> CallerDict, commands |-> Len(h) + 1,
                   current_dir |-> HomeDir, log |-> <<>>, default |-> TRUE,
                   start_tree |-> h[CallerDict]]]

DefaultEmulator(h) ==
    [heap |-> h \o <<DefaultFileSystem, BuiltinCommands>>,
     emulator |-> [file_system |-> Len(h) + 1, commands |-> Len(h) + 2,
                   current_dir |-> HomeDir, log |-> <<>>, default |-> TRUE,
                   start_tree |-> DefaultFileSystem]]

\* self.file_system = file_system: the emulator holds the caller's dictionary
EmulatorOf(h, given) ==
    [heap |-> Append(h, BuiltinCommands),
     emulator |-> [file_system |-> given, commands |-> Len(h) + 1,
                   current_dir |-> HomeDir, log |-> <<>>, default |-> FALSE,
                   start_tree |-> h[given]]]

\* self.file_system, self.commands and self.current_dir of emulator i
Tree(i) == heap[emulators[i].file_system]

Registry(i) == heap[emulators[i].commands]

DirOfFirst(ems, i) == ems[1].current_dir

DirOf(ems, i) == ems[i].current_dir

\* the handler the example registers as "echo"
echo_command(args, dir) == EmuReturn(args, dir)

\* execute with a registry that may hold the custom command "echo"
ExecuteWith(commands, fs, dir, command) ==
    LET parts == SplitWs1(Strip(command)) IN
    IF Len(parts) > 0 /\ parts[1] = "echo" /\ "echo" \in commands
    THEN echo_command(IF Len(parts) > 1 THEN parts[2] ELSE "", dir)
    ELSE execute(fs, dir, command)

PairCommands == {"pwd", "cd motionapps", "ls", "echo hi"}

PairPaths == {"/home/pablo/motionapps", "/home/pablo/notes"}

TotalCalls == Len(emulators[1].log) + Len(emulators[2].log)

Logged(i, op, arg, out) ==
    Append(emulators[i].log, [op |-> op, arg |-> arg, out |-> out])

\* AgentTools.__init__: self.unix_emulator = UnixEmulator()
NewAgentTools ==
    /\ pc = "pair"
    /\ Len(emulators) < Cardinality(Instances)
    /\ LET r == DefaultEmulator(heap) IN
       /\ heap' = r.heap
       /\ emulators' = Append(emulators, r.emulator)
    /\ UNCHANGED <<textVars, tasks, agent, emuVars, loopVars, pc, exc, fileVars, emu_out,
                   file_call, tool_call, save_call>>

\* UnixEmulator(file_system) on the caller's dictionary
NewEmulator ==
    /\ pc = "pair"
    /\ Len(emulators) < Cardinality(Instances)
    /\ LET r == EmulatorOf(heap, CallerDict) IN
       /\ heap' = r.heap
       /\ emulators' = Append(emulators, r.emulator)
    /\ UNCHANGED <<textVars, tasks, agent, emuVars, loopVars, pc, exc, fileVars, emu_out,
                   file_call, tool_call, save_call>>

CanCall(i) ==
    /\ pc = "pair"
    /\ Len(emulators) = Cardinality(Instances)
    /\ i \in Instances
    /\ TotalCalls < MaxCalls

\* emulators[i].execute(command)
ExecuteOn(i, command) ==
    /\ CanCall(i)
    /\ LET r == ExecuteWith(Registry(i), Tree(i), DirOf(emulators, i), command) IN
       emulators' = [emulators EXCEPT
                        ![i].current_dir = r.current_dir,
                        ![i].log = Logged(i, "execute", command,
                                          IF r.raised THEN "raised " \o r.out ELSE r.out)]
    /\ UNCHANGED <<textVars, tasks, agent, emuVars, loopVars, pc, exc, fileVars, emu_out,
                   file_call, tool_call, save_call, heap>>

\* emulators[i].add_file(path)
AddFileOn(i, path) ==
    /\ CanCall(i)
    /\ heap' = [heap EXCEPT ![emulators[i].file_system] = add_file(@, path, EmptyDir)]
    /\ emulators' = [emulators EXCEPT ![i].log = Logged(i, "add_file", path, "None")]
    /\ UNCHANGED <<textVars, tasks, agent, emuVars, loopVars, pc, exc, fileVars, emu_out,
                   file_call, tool_call, save_call>>

\* emulators[i].remove_file(path)
RemoveFileOn(i, path) ==
    /\ CanCall(i)
    /\ LET r == remove_file(Tree(i), path) IN
       /\ heap' = [heap EXCEPT ![emulators[i].file_system] = r.file_system]
       /\ emulators' = [emulators EXCEPT
                           ![i].log = Logged(i, "remove_file", path,
                                             IF r.result THEN "True" ELSE "False")]
    /\ UNCHANGED <<textVars, tasks, agent, emuVars, loopVars, pc, exc, fileVars, emu_out,
                   file_call, tool_call, save_call>>

\* emulators[i].register_command("echo", echo_command)
RegisterCommandOn(i) ==
    /\ CanCall(i)
    /\ heap' = [heap EXCEPT ![emulators[i].commands] = @ \cup {"echo"}]
    /\ emulators' = [emulators EXCEPT
                        ![i].log = Logged(i, "register_command", "echo", "None")]
    /\ UNCHANGED <<textVars, tasks, agent, emuVars, loopVars, pc, exc, fileVars, emu_out,
                   file_call, tool_call, save_call>>

InitPair ==
    /\ tasks = [dir |-> FALSE, files |-> NoFiles]
    /\ agent = NoAgent
    /\ file_system = DefaultFileSystem
    /\ current_dir = HomeDir
    /\ default_history = <<>>
    /\ arg_history = <<>>
    /\ hist_ref = "arg"
    /\ user_input = ""
    /\ msgs = <<>>
    /\ it = -1
    /\ do_loop = FALSE
    /\ response = <<>>
    /\ pos = 1
    /\ pc = "pair"
    /\ calls = 0
    /\ logged = FALSE
    /\ exc = NoException
    /\ start_history = <<>>
    /\ inv = 0
    /\ earlier_inputs = {}
    /\ varied = 0
    /\ only_shell = FALSE
    /\ history_file = NoHistoryFile
    /\ window = NoWindow
    /\ emu_out = NoOutput
    /\ file_call = NoFileCall
    /\ tool_call = NoToolCall
    /\ save_call = NoSaveCall
    /\ heap = <<DefaultFileSystem>>
    /\ emulators = <<>>
    /\ responses = <<>>
    /\ sessions = <<>>

NextPair ==
    \/ NewAgentTools
    \/ NewEmulator
    \/ \E i \in Instances, command \in PairCommands : ExecuteOn(i, command)
    \/ \E i \in Instances, path \in PairPaths : AddFileOn(i, path)
    \/ \E i \in Instances, path \in PairPaths : RemoveFileOn(i, path)
    \/ \E i \in Instances : RegisterCommandOn(i)

SpecPair == InitPair /\ [][NextPair]_vars

(***************************************************************************)
(* agent_tools.py: update_tasks called directly, and through the           *)
(* update_tasks branch of run_agent_loop                                   *)
(***************************************************************************)
ToolActions == {"add", "edit", "delete", "rename"}

ToolNames == {"deploy", "backup"}

\* task_data of a direct call: left out (None), empty, without intent_name, and
\* with an intent_name that is not the task name
ToolData ==
    {NoneData, EmptyDict, NewTaskData, DictSet(NewTaskData, "intent_name", "other")}

\* the input of an update_tasks tool_use block: task_data is not a required field
ToolInputs ==
    {[action |-> a, task_name |-> n] : a \in ToolActions, n \in ToolNames}
    \cup {[action |-> a, task_name |-> n, task_data |-> NewTaskData] :
              a \in ToolActions, n \in ToolNames}

Called(action, task_name, task_data, supplied, fault) ==
    LET r == update_tasks(tasks, action, task_name, task_data, fault) IN
    /\ tasks' = r.tasks
    /\ tool_call' = [called |-> TRUE, action |-> action, task_name |-> task_name,
                     task_data |-> task_data, supplied |-> supplied, fault |-> fault,
                     raised |-> r.raised, result |-> r.result, before |-> tasks]
    /\ save_call' = NoSaveCall

\* await tools.update_tasks(action, task_name, task_data); task_data may be left out
UpdateTasks(action, task_name, task_data, fault) ==
    /\ pc = "tools"
    /\ Called(action, task_name, task_data, task_data # NoneData, fault)
    /\ UNCHANGED <<agent, emuVars, loopVars, pc, exc, fileVars, emu_out, file_call,
                   pairVars, textVars>>

\* the update_tasks branch of run_agent_loop on the input of a tool_use block
InvokeUpdateTasks(input, fault) ==
    /\ pc = "tools"
    /\ Called(input.action, input.task_name, DictGet(input, "task_data", EmptyDict),
              "task_data" \in DOMAIN input, fault)
    /\ UNCHANGED <<agent, emuVars, loopVars, pc, exc, fileVars, emu_out, file_call,
                   pairVars, textVars>>

\* the context argument of save_agent_context, as JSON text
Contexts == {"{}", "{\"cwd\": \"/srv/app\"}"}

\* agent.save_agent_context(intent, context)
SaveAgentContext(intent, context, fault) ==
    /\ pc = "tools"
    /\ LET r == save_agent_context(tasks, intent, context, fault) IN
       /\ tasks' = r.tasks
       /\ save_call' = [called |-> TRUE, intent |-> intent, context |-> context,
                        raised |-> r.raised, result |-> r.result, fault |-> fault,
                        before |-> tasks]
    /\ tool_call' = NoToolCall
    /\ UNCHANGED <<agent, emuVars, loopVars, pc, exc, fileVars, emu_out, file_call,
                   pairVars, textVars>>

InitTools ==
    /\ tasks \in InitialStores
    /\ agent = NoAgent
    /\ file_system = DefaultFileSystem
    /\ current_dir = HomeDir
    /\ default_history = <<>>
    /\ arg_history = <<>>
    /\ hist_ref = "arg"
    /\ user_input = ""
    /\ msgs = <<>>
    /\ it = -1
    /\ do_loop = FALSE
    /\ response = <<>>
    /\ pos = 1
    /\ pc = "tools"
    /\ calls = 0
    /\ logged = FALSE
    /\ exc = NoException
    /\ start_history = <<>>
    /\ inv = 0
    /\ earlier_inputs = {}
    /\ varied = 0
    /\ only_shell = FALSE
    /\ history_file = NoHistoryFile
    /\ window = NoWindow
    /\ emu_out = NoOutput
    /\ file_call = NoFileCall
    /\ tool_call = NoToolCall
    /\ save_call = NoSaveCall
    /\ heap = <<>>
    /\ emulators = <<>>
    /\ responses = <<>>
    /\ sessions = <<>>

\* the faults that can occur in a call: os.remove is called by delete only, the
\* other three by the other actions and by save_agent_context
FaultsOf(action) ==
    IF action = "delete" THEN {"none", "remove"} ELSE Faults \ {"remove"}

NextTools ==
    \/ \E action \in ToolActions, task_name \in ToolNames, task_data \in ToolData :
          \E fault \in FaultsOf(action) :
              UpdateTasks(action, task_name, task_data, fault)
    \/ \E input \in ToolInputs : InvokeUpdateTasks(input, "none")
    \/ \E intent \in ToolNames, context \in Contexts :
          \E fault \in FaultsOf("save") : SaveAgentContext(intent, context, fault)

SpecTools == InitTools /\ [][NextTools]_vars

(***************************************************************************)
(* The claims                                                              *)
(***************************************************************************)
Last(h) == h[Len(h)]

\* no two consecutive turns of h have the same role
Alternates(h) == \A i \in 1..(Len(h) - 1) : h[i].role # h[i + 1].role

\* h is empty, or alternates and ends with an assistant turn
WellFormedStart(h) == Len(h) = 0 \/ (Alternates(h) /\ Last(h).role = "assistant")

IsToolResultTurn(turn) == turn.role = "user" /\ turn.content[1].type = "tool_result"

IsToolUseTurn(turn) == turn.role = "assistant" /\ turn.content[1].type = "tool_use"

\* C1: an invocation makes at most 12 completion calls; when every completion
\* requests run_shell it does not end in an exception, and when it has returned it
\* has made exactly 12 calls and logged the exhaustion notice.
C1_TwelveShellCallsThenReturn ==
    /\ calls <= MaxIterations
    /\ (only_shell /\ calls >= 1) => pc # "raised"
    /\ (only_shell /\ pc = "done") => (calls = MaxIterations /\ logged)

\* C2: started on an empty history or one that alternates and ends with an
\* assistant turn, the history run_agent_loop returns has no two consecutive turns
\* of the same role.
C2_ReturnedHistoryAlternates ==
    (pc = "done" /\ WellFormedStart(start_history)) => Alternates(History)

\* C3: when run_agent_loop returns, the history is not empty and ends with an
\* assistant turn, and the return step appends the placeholder exactly when the
\* history ended with a user turn after the loop.
C3_ReturnsEndingWithAssistant ==
    /\ [](pc = "done" => (Len(History) > 0 /\ Last(History).role = "assistant"))
    /\ [][(pc = "head" /\ pc' = "done") =>
            IF Len(History) > 0 /\ Last(History).role = "user"
            THEN History' = Append(History, Placeholder)
            ELSE History' = History]_vars

\* C3 happens: an invocation returned and the placeholder closes its history
C3_Witness ==
    /\ pc = "done"
    /\ Len(History) > Len(start_history) + 1
    /\ Last(History) = Placeholder
    /\ History[Len(History) - 1].role = "user"

\* C4: every tool_result turn the invocation appended comes right after an
\* assistant turn, appended by it too, whose tool_use block has the id the result
\* names.
C4_ResultFollowsItsInvocation ==
    \A i \in (Len(start_history) + 1)..Len(History) :
        IsToolResultTurn(History[i]) =>
            /\ i - 1 > Len(start_history)
            /\ IsToolUseTurn(History[i - 1])
            /\ History[i - 1].content[1].id = History[i].content[1].tool_use_id

\* C4 happens: the invocation appended the result of a tool other than run_shell
C4_Witness ==
    /\ inv >= 1
    /\ \E i \in (Len(start_history) + 1)..Len(History) :
           /\ IsToolResultTurn(History[i])
           /\ History[i - 1].content[1].name = "update_tasks"

\* C5: the step after iteration k starts iteration k+1 if and only if k+1 < 12 and
\* the completion of iteration k requested run_shell, update_tasks, list_tasks or
\* get_task_details: no iteration is started without such a request, and the
\* invocation does not end after an iteration that had one while k+1 < 12.
C5_ContinuesIffToolRequested ==
    [][/\ (pc = "head" /\ it >= 0 /\ pc' = "await") =>
             (it + 1 < MaxIterations /\ HasContinuing(response))
       /\ (pc \in {"head", "blocks"} /\ it >= 0 /\ calls >= 1
             /\ pc' \in {"done", "raised"}) =>
             ~(it + 1 < MaxIterations /\ HasContinuing(response))]_vars

\* C6: in live mode no outcome of the shell command leaves run_shell as an
\* exception that ends run_agent_loop.
C6_LiveShellNeverRaises ==
    (agent.built /\ ~agent.test_mode) => ~(pc = "raised" /\ exc.origin = "run_shell")

\* C7: in task mode with the task document absent or unparsable the agent is
\* built with the synthetic goal, and run_agent_loop does not end in an exception
\* before its first completion call.
C7_MissingTaskStillRuns ==
    (agent.built /\ ~agent.meta_mode /\ ~agent.intent_loaded) =>
        /\ agent.goal = SyntheticGoal(agent.intent)
        /\ ~(pc = "raised" /\ calls = 0)

\* C8: the history an invocation without a history argument returns holds no user
\* turn of an earlier invocation without a history argument.
C8_NoTurnOfEarlierInvocation ==
    (pc = "done" /\ hist_ref = "default") =>
        \A i \in 1..Len(History) : \A u \in earlier_inputs : History[i] # UserTurn(u)

\* h is a contiguous suffix of g
IsSuffix(h, g) == Len(h) <= Len(g) /\ h = SubSeq(g, Len(g) - Len(h) + 1, Len(g))

\* C9: a non-empty window read_history_from_file returns is a suffix of the last
\* 10 persisted turns, starts with a user turn, and that turn does not start with
\* a tool_result block.
C9_WindowStartsWithUserText ==
    (window.state = "returned" /\ Len(window.turns) > 0) =>
        /\ Len(window.turns) <= HistoryWindow
        /\ IsSuffix(window.turns, history_file.turns)
        /\ window.turns[1].role = "user"
        /\ window.turns[1].content[1].type # "tool_result"

\* C9 happens: the file held more than 10 turns and the reader dropped leading
\* turns of the last 10
C9_Witness ==
    /\ window.state = "returned"
    /\ Len(history_file.turns) > HistoryWindow
    /\ Len(window.turns) > 0
    /\ Len(window.turns) < HistoryWindow - 1

\* C10: execute returns a string for every command line and never raises; for a
\* command whose first word is not registered the string is
\* "Command not found: <first word>".
C10_ExecuteIsTotal ==
    /\ ~emu_out.raised
    /\ (emu_out.command # ""
          /\ TakeWord(LStrip(emu_out.command)) \notin BuiltinCommands \cup {"git"})
         => emu_out.out = "Command not found: " \o TakeWord(LStrip(emu_out.command))

\* the words of a command line after its first word
ArgWords(command) == Tail(SplitWs(command))

\* the segments of p taken from dir, with ".." popping one segment (nothing at the
\* root) and "." and empty segments ignored
RECURSIVE Normalized(_)
Normalized(segs) ==
    IF Len(segs) = 0 THEN <<>>
    ELSE LET before == Normalized(SubSeq(segs, 1, Len(segs) - 1))
             s == segs[Len(segs)]
         IN IF s \in {"", "."} THEN before
            ELSE IF s = ".."
                 THEN IF Len(before) = 0 THEN <<>>
                      ELSE SubSeq(before, 1, Len(before) - 1)
            ELSE Append(before, s)

ResolvedSegs(dir, p) ==
    Normalized(IF StartsWith(p, "/") THEN SplitOn(p, "/")
               ELSE SplitOn(dir, "/") \o SplitOn(p, "/"))

\* the segments name a chain of entries of the tree
RECURSIVE SegsExist(_, _)
SegsExist(tree, segs) ==
    \/ Len(segs) = 0
    \/ (segs[1] \in DOMAIN tree /\ SegsExist(tree[segs[1]], Tail(segs)))

\* the entry names of the directory the segments lead to
RECURSIVE NamesAt(_, _)
NamesAt(tree, segs) ==
    IF Len(segs) = 0 THEN DOMAIN tree ELSE NamesAt(tree[segs[1]], Tail(segs))

PathOf(segs) == "/" \o Join(segs, "/")

\* the last call was execute of a command line whose first word is word
LastCommandIs(word) ==
    /\ file_call = NoFileCall
    /\ Len(SplitWs(emu_out.command)) > 0
    /\ SplitWs(emu_out.command)[1] = word

\* C11: the root exists and current_dir is a path that exists in the tree, after
\* any sequence of execute, add_file and remove_file calls.
C11_CurrentDirExists ==
    /\ "/" \in DOMAIN file_system
    /\ SegsExist(file_system["/"], ResolvedSegs("/", current_dir))

\* C12: cd with a path resolves it against current_dir; when the resolved path
\* does not exist it returns a "No such file or directory" message and leaves
\* current_dir as it was, and when it exists current_dir becomes the resolved path
\* and cd returns the empty string.
C12_CdResolvesThenMoves ==
    [][LET words == SplitWs(emu_out'.command)
           p == Strip(Drop(LStrip(emu_out'.command), 2))
           segs == ResolvedSegs(current_dir, p)
       IN (/\ file_call' = NoFileCall
           /\ Len(words) > 0 /\ words[1] = "cd"
           /\ p \notin {"", "~"}) =>
              /\ ~emu_out'.raised
              /\ file_system' = file_system
              /\ IF SegsExist(file_system["/"], segs)
                 THEN current_dir' = PathOf(segs) /\ emu_out'.out = ""
                 ELSE /\ current_dir' = current_dir
                      /\ Contains(emu_out'.out, "No such file or directory")]_vars

\* C12 happens: cd with "." and ".." segments moved to the resolved directory,
\* and a cd to a missing path left the directory where it was
C12_Witness ==
    /\ LastCommandIs("cd")
    /\ \/ (emu_out.command = "cd ./motionapps/../motionapps/src"
             /\ current_dir = "/home/pablo/motionapps/src")
       \/ (emu_out.command = "cd /nonexistent" /\ emu_out.out # ""
             /\ current_dir = "/home/pablo/motionapps")

\* the first word after ls that is not an option
LsPathArg(command) ==
    LET words == ArgWords(command)
        i == CHOOSE k \in 1..Len(words) :
                 /\ ~StartsWith(words[k], "-")
                 /\ \A j \in 1..(k - 1) : StartsWith(words[j], "-")
    IN words[i]

HasLsPathArg(command) ==
    \E k \in 1..Len(ArgWords(command)) : ~StartsWith(ArgWords(command)[k], "-")

\* the output of ls for the entry names: all of them, or those not hidden
ListingOf(names) ==
    {Join(Sorted(names), "  "),
     Join(Sorted({n \in names : ~StartsWith(n, ".")}), "  ")}

\* C13: ls p lists a directory if and only if cd p would succeed, and it lists the
\* directory cd p would move to.
C13_LsResolvesLikeCd ==
    (LastCommandIs("ls") /\ HasLsPathArg(emu_out.command)) =>
        LET segs == ResolvedSegs(current_dir, LsPathArg(emu_out.command)) IN
        IF SegsExist(file_system["/"], segs)
        THEN emu_out.out \in ListingOf(NamesAt(file_system["/"], segs))
        ELSE Contains(emu_out.out, "No such file or directory")

\* C14: the output of ls is the sorted list of the entry names of the target
\* directory, and the names starting with "." are in it if and only if "-a" is one
\* of the words of the command.
C14_HiddenOnlyWithDashA ==
    (LastCommandIs("ls") /\ ~Contains(emu_out.out, "No such file or directory")) =>
        LET words == ArgWords(emu_out.command)
            dash_a == \E k \in 1..Len(words) : words[k] = "-a"
            names == GetDirContents(file_system, LsTarget(current_dir, words)).names
            expected == IF dash_a THEN names
                        ELSE {n \in names : ~StartsWith(n, ".")}
            listed == Sorted(expected)
        IN /\ emu_out.out = Join(listed, "  ")
           /\ \A i \in 1..(Len(listed) - 1) : StrLess(listed[i], listed[i + 1])

\* the last call of update_tasks was one of the two failure cases
AddOfExisting ==
    /\ tool_call.called /\ tool_call.action = "add"
    /\ tool_call.task_name \in DOMAIN tool_call.before.files

EditOfMissing ==
    /\ tool_call.called /\ tool_call.action = "edit"
    /\ tool_call.task_name \notin DOMAIN tool_call.before.files

\* C15: add for a name that exists returns an error and leaves the document as it
\* was; edit for a name that does not exist returns an error and no document of
\* that name exists afterwards.
C15_FailureCasesKeepStore ==
    /\ AddOfExisting =>
          /\ ~tool_call.raised /\ StartsWith(tool_call.result, "Error")
          /\ tool_call.task_name \in DOMAIN tasks.files
          /\ tasks.files[tool_call.task_name]
                 = tool_call.before.files[tool_call.task_name]
    /\ EditOfMissing =>
          /\ ~tool_call.raised /\ StartsWith(tool_call.result, "Error")
          /\ tool_call.task_name \notin DOMAIN tasks.files

\* the last call of update_tasks reported success
Succeeded == tool_call.called /\ ~tool_call.raised
                 /\ Contains(tool_call.result, "successfully")

\* C16: after a successful add the persisted document is the given data with
\* intent_name set to the task name, and every document update_tasks persists has
\* intent_name equal to its name in the store.
C16_PersistedNameIsKey ==
    /\ (Succeeded /\ tool_call.action = "add") =>
          /\ tool_call.task_name \in DOMAIN tasks.files
          /\ LET file == tasks.files[tool_call.task_name]
                 data == tool_call.task_data
             IN /\ file.parses
                /\ DOMAIN file.doc = DOMAIN data \cup {"intent_name"}
                /\ file.doc["intent_name"] = tool_call.task_name
                /\ \A k \in DOMAIN data \ {"intent_name"} : file.doc[k] = data[k]
    /\ tool_call.called =>
          \A n \in DOMAIN tasks.files :
              (/\ tasks.files[n].parses
               /\ (n \notin DOMAIN tool_call.before.files
                      \/ tasks.files[n] # tool_call.before.files[n]))
                 => tasks.files[n].doc["intent_name"] = n

\* C16 happens: add succeeded with data that carried another intent_name
C16_Witness ==
    /\ Succeeded /\ tool_call.action = "add"
    /\ "intent_name" \in DOMAIN tool_call.task_data
    /\ tool_call.task_data["intent_name"] # tool_call.task_name

\* C17: add or edit without task data (left out of the direct call, or absent from
\* the tool invocation) returns an error string and persists nothing.
C17_NoDataIsAnError ==
    (tool_call.called /\ tool_call.action \in {"add", "edit"} /\ ~tool_call.supplied) =>
        /\ ~tool_call.raised
        /\ StartsWith(tool_call.result, "Error")
        /\ tasks.files = tool_call.before.files

\* C18: update_tasks returns a string for every action, name, task data and
\* persistence fault; no exception reaches its caller.
C18_UpdateTasksNeverRaises == tool_call.called => ~tool_call.raised

\* C19: delete removes the task when it exists and reports not-found when it does
\* not, whatever task_data is; after a delete the name is absent, so an edit of it
\* fails and an add of it succeeds.
C19_DeleteWhateverTheData ==
    (tool_call.called /\ tool_call.action = "delete" /\ tool_call.fault = "none") =>
        LET name == tool_call.task_name IN
        /\ ~tool_call.raised
        /\ IF name \in DOMAIN tool_call.before.files
           THEN /\ Contains(tool_call.result, "deleted successfully")
                /\ tasks.files = [n \in DOMAIN tool_call.before.files \ {name} |->
                                     tool_call.before.files[n]]
           ELSE /\ Contains(tool_call.result, "not found")
                /\ tasks = tool_call.before
        /\ StartsWith(update_tasks(tasks, "edit", name, NewTaskData, "none").result,
                      "Error")
        /\ Contains(update_tasks(tasks, "add", name, NewTaskData, "none").result,
                    "successfully")

\* the run_shell requests of h that got a result: the command and the result
ShellResults(h) ==
    {[command |-> h[i].content[1].input.command, out |-> h[i + 1].content[1].content] :
        i \in {k \in 1..(Len(h) - 1) :
                  /\ IsToolUseTurn(h[k]) /\ h[k].content[1].name = "run_shell"
                  /\ IsToolResultTurn(h[k + 1])}}

\* C20: the result of a run_shell invocation does not depend on the invocations
\* before it: on one agent the same command always gets the same result, in test
\* mode as in live mode.
C20_RunShellIsStateless ==
    \A a, b \in ShellResults(History) : a.command = b.command => a.out = b.out

\* C21: for two default-constructed emulators, a call of execute, add_file,
\* remove_file or register_command on one leaves the tree, the current directory
\* and the command registry of the other as they were.
C21_EmulatorStateIsPrivate ==
    [][\A i, j \in 1..Len(emulators) :
          (/\ i # j
           /\ emulators[i].default /\ emulators[j].default
           /\ emulators'[i].log # emulators[i].log) =>
              /\ heap'[emulators'[j].file_system] = Tree(j)
              /\ heap'[emulators'[j].commands] = Registry(j)
              /\ emulators'[j].current_dir = emulators[j].current_dir]_vars

\* C21 happens: both emulators are default-constructed, one had calls that
\* changed its tree, its directory and its registry, the other had none
C21_Witness ==
    /\ Len(emulators) = 2
    /\ emulators[1].default /\ emulators[2].default
    /\ Len(emulators[2].log) = 0
    /\ Tree(1) # Tree(2)
    /\ Registry(1) # Registry(2)
    /\ emulators[1].current_dir # emulators[2].current_dir

OnlyExecute(log) == \A k \in 1..Len(log) : log[k].op = "execute"

CommandsOf(log) == [k \in 1..Len(log) |-> log[k].arg]

C23_SudoRunsNothing ==
    [][LET words == SplitWs(emu_out'.command) IN
       (/\ file_call' = NoFileCall
        /\ Len(words) > 0
        /\ words[1] = "reboot" \/ (words[1] = "sudo" /\ Len(words) > 1)) =>
           /\ ~emu_out'.raised
           /\ current_dir' = current_dir
           /\ file_system' = file_system
           /\ emu_out'.out =
                 IF words[1] = "reboot"
                 THEN "Operation not permitted, must be run with sudo to work"
                 ELSE IF words[2] = "reboot" THEN "System is rebooting..."
                 ELSE "sudo: command not found: " \o words[2]]_vars

\* C23 happens: "sudo cd /" was executed away from the root and named cd as not
\* found
C23_Witness ==
    /\ LastCommandIs("sudo")
    /\ emu_out.command = "sudo cd /"
    /\ emu_out.out = "sudo: command not found: cd"
    /\ current_dir = "/home/pablo/motionapps"

\* the path names an entry of the tree (the root for "/")
ExistsIn(fs, path) == SegsExist(fs["/"], ResolvedSegs("/", path))

\* C25: remove_file returns True if and only if the path existed before the call
\* (the root apart, which is never removed); after True the path does not exist,
\* after False the tree is as it was.
C25_RemoveReportsExistence ==
    file_call.op = "remove_file" =>
        /\ "/" \in DOMAIN file_system
        /\ Len(ResolvedSegs("/", file_call.path)) > 0 =>
              (file_call.result <=> ExistsIn(file_call.before, file_call.path))
        /\ file_call.result => ~ExistsIn(file_system, file_call.path)
        /\ ~file_call.result => file_system = file_call.before

\* C24: save_agent_context raises when the task document does not exist and
\* creates none; when the document exists and parses and the call returns True,
\* its context is the given context and every other field is as it was.
C24_SaveContextKeepsTheRest ==
    save_call.called =>
        LET name == save_call.intent IN
        /\ name \notin DOMAIN save_call.before.files =>
              (save_call.raised /\ tasks.files = save_call.before.files)
        /\ (/\ name \in DOMAIN save_call.before.files
            /\ save_call.before.files[name].parses
            /\ save_call.fault = "none") =>
              LET old == save_call.before.files[name].doc
                  new == tasks.files[name].doc
              IN /\ ~save_call.raised /\ save_call.result = "True"
                 /\ tasks.files[name].parses
                 /\ new["context"] = save_call.context
                 /\ DOMAIN new = DOMAIN old \cup {"context"}
                 /\ \A k \in DOMAIN old \ {"context"} : new[k] = old[k]
                 /\ \A n \in DOMAIN tasks.files \ {name} :
                        tasks.files[n] = save_call.before.files[n]

\* C24 happens: the context of a parsed document with a goal and commands was
\* replaced by another one
C24_Witness ==
    /\ save_call.called /\ save_call.result = "True"
    /\ save_call.before.files[save_call.intent].parses
    /\ "commands" \in DOMAIN save_call.before.files[save_call.intent].doc
    /\ "context" \in DOMAIN save_call.before.files[save_call.intent].doc
    /\ save_call.before.files[save_call.intent].doc["context"] # save_call.context

\* C26: the session can always resume: whatever history process_text has persisted,
\* the read_history_from_file of the next process_text returns a window and does not
\* raise; the trimming of leading turns never empties the window and indexes it.
C26_SessionCanResume ==
    (history_file.exists /\ history_file.parses) =>
        /\ read_history_from_file(history_file).state = "returned"
        /\ window.state # "raised"

\* C27: the "max iterations reached" notice is logged only when the loop ran out of
\* iterations, that is when all 12 completion calls were made; an invocation that
\* stopped after fewer calls because an iteration left do_loop false has not logged it.
C27_NoticeOnlyOnExhaustion ==
    (pc = "done" /\ logged) => calls = MaxIterations

\* the turns the running invocation has appended to the history
Appended == SubSeq(History, Len(start_history) + 1, Len(History))

\* the texts of the text blocks and the messages of the send_message invocations
\* among the assistant turns of h, in their order
RECURSIVE Outbound(_)
Outbound(h) ==
    IF h = <<>> THEN <<>>
    ELSE LET block == h[1].content[1]
             here == IF h[1].role # "assistant" \/ h[1] = Placeholder THEN <<>>
                     ELSE IF block.type = "text" THEN <<block.text>>
                     ELSE IF block.type = "tool_use" /\ block.name = "send_message"
                     THEN <<block.input.message>>
                     ELSE <<>>
         IN here \o Outbound(Tail(h))

\* C28: the outbound list of run_agent_loop is exactly the messages of the
\* send_message invocations and the texts of the text blocks, in the order of the
\* blocks; a run_shell, update_tasks, list_tasks or get_task_details invocation
\* adds nothing to it.
C28_OutboundIsMessagesAndTexts ==
    (inv >= 1 /\ pc \in {"head", "await", "blocks", "done"}) => msgs = Outbound(Appended)

\* the turns of h after its last user turn with string content
RECURSIVE AfterLastUserText(_)
AfterLastUserText(h) ==
    IF h = <<>> THEN <<>>
    ELSE LET last == h[Len(h)] IN
         IF last.role = "user" /\ IsStr(last) THEN <<>>
         ELSE Append(AfterLastUserText(SubSeq(h, 1, Len(h) - 1)), last)

\* the blocks of the assistant turns appended since the last completion call
HandledBlocks ==
    LET turns == SelectSeq(AfterLastUserText(Appended), LAMBDA t : t.role = "assistant")
    IN [i \in 1..Len(turns) |-> turns[i].content[1]]

\* C29: the blocks of one completion are handled in the order returned, and for
\* every tool the assistant turn of the invocation is in the history before the tool
\* runs: when a tool raises, the history ends with the turn of its invocation.
C29_InvocationTurnBeforeExecution ==
    /\ pc = "blocks" => HandledBlocks = SubSeq(response, 1, pos - 1)
    /\ (pc = "raised" /\ exc.origin \in {"run_shell", "update_tasks"}) =>
           /\ Len(History) > 0
           /\ Last(History) = Turn("assistant", response[pos])

\* the iterations the running invocation has begun: each appends one user turn
Begun == IF pc = "await" THEN calls + 1 ELSE calls

\* the user turns with string content among the appended turns
AppendedTexts == SelectSeq(Appended, LAMBDA t : t.role = "user" /\ IsStr(t))

\* C30: run_agent_loop only appends to the history: the history it was started with
\* stays an unmodified prefix, the first appended turn is the user turn with the true
\* user message, that message is appended once, and every later iteration begins
\* with the user turn "Next action:".
C30_OnlyAppends ==
    (inv >= 1 /\ pc \in {"head", "await", "blocks", "done", "raised"}) =>
        /\ Len(History) >= Len(start_history)
        /\ SubSeq(History, 1, Len(start_history)) = start_history
        /\ Len(AppendedTexts) = Begun
        /\ Begun >= 1 => Appended[1] = UserTurn(user_input)
        /\ \A i \in 2..Len(AppendedTexts) : AppendedTexts[i] = UserTurn("Next action:")
        /\ Cardinality({i \in 1..Len(Appended) : Appended[i] = UserTurn(user_input)}) <= 1

\* an invocation given a history of two turns has returned after three iterations
C30_Witness ==
    /\ pc = "done"
    /\ calls >= 3
    /\ Len(start_history) = 2
    /\ Len(AppendedTexts) = 3

\* C31: when the classification yields no match, process_text returns the one fixed
\* generic message, constructs no Agent, runs no agent loop and leaves the history
\* file as it was: the user's message is not recorded.
C31_NoMatchReturnsGeneric ==
    [][\A test_mode \in BOOLEAN :
          (/\ ProcessText("", test_mode)
           /\ read_history_from_file(history_file).state = "returned"
           /\ ClassifyRaises(tasks) = "")
          => /\ Len(responses') = 1
             /\ StartsWith(responses'[1], "Intent not identified, ")
             /\ agent' = agent
             /\ history_file' = history_file
             /\ pc' = "text"
             /\ UNCHANGED <<inv, calls, it, msgs, arg_history, default_history>>]_vars

\* a call without a match has returned in a session that has a persisted history
C31_Witness ==
    /\ pc = "text"
    /\ Len(responses) = 1
    /\ StartsWith(responses[1], "Intent not identified, ")
    /\ history_file.exists
    /\ Len(history_file.turns) > 0

MetaOnlyTools == {"list_tasks", "get_task_details"}

\* the running invocation has executed a list_tasks or get_task_details invocation:
\* its result turn is in the history
ExecutedMetaOnlyTool ==
    \E i \in 1..Len(Appended) :
        /\ IsToolUseTurn(Appended[i])
        /\ Appended[i].content[1].name \in MetaOnlyTools
        /\ i < Len(Appended)
        /\ IsToolResultTurn(Appended[i + 1])

\* C32: list_tasks and get_task_details are tools of meta mode only: they are in
\* the tool catalog only of an agent constructed with no intent, and run_agent_loop
\* executes an invocation of them only when the agent is in meta mode.
C32_MetaToolsOnlyInMetaMode ==
    (inv >= 1 /\ pc \in {"head", "await", "blocks", "done", "raised"}) =>
        /\ (tools_spec(agent) \cap MetaOnlyTools # {}) => agent.meta_mode
        /\ ExecutedMetaOnlyTool => agent.meta_mode

\* the step is the write of a call that read the history before any call had written
\* it (it started from no history), while another call has written in between
WriteOfOverlappingCall ==
    /\ pc = "done"
    /\ pc' = "text"
    /\ history_file' # history_file
    /\ start_history = <<>>
    /\ history_file.exists

\* C33: no lost update on the history file: when two process_text calls overlap so
\* that both read the history before either writes, the history persisted after
\* both have ended holds the turns of each; the second write keeps every turn the
\* first call persisted.
C33_NoLostUpdate ==
    [][WriteOfOverlappingCall =>
          \A i \in 1..Len(history_file.turns) :
              \E j \in 1..Len(history_file'.turns) :
                  history_file'.turns[j] = history_file.turns[i]]_vars

\* C34: update_tasks changes the task store only for the actions add, edit and
\* delete: a call with any other action returns without creating, overwriting or
\* deleting a task document.
C34_OtherActionsKeepStore ==
    (tool_call.called /\ tool_call.action \notin {"add", "edit", "delete"}) =>
        tasks.files = tool_call.before.files

\* the trimming loop run pass by pass on r, for at most fuel passes: how it ended
\* ("running": it has not), with what, and after how many passes that did not exit
RECURSIVE TrimRun(_, _)
TrimRun(r, fuel) ==
    IF fuel = 0 THEN [state |-> "running", turns |-> r, passes |-> 0]
    ELSE LET pass == TrimPass(r) IN
         IF pass.state = "again"
         THEN [TrimRun(pass.turns, fuel - 1) EXCEPT !.passes = @ + 1]
         ELSE [state |-> pass.state, turns |-> pass.turns, passes |-> 0]

\* history[-10:] of the persisted history
FileWindow == LastN(history_file.turns, HistoryWindow)

\* C35: the trimming loop of read_history_from_file terminates on every persisted
\* history: a pass that does not exit removes at least one turn of the window, so
\* after at most as many such passes as the window has turns the loop has ended,
\* by returning or by faulting, and what the read gives is how those passes ended.
C35_TrimmingTerminates ==
    (window # NoWindow /\ history_file.exists /\ history_file.parses) =>
        LET run == TrimRun(FileWindow, Len(FileWindow) + 1) IN
        /\ \A k \in 0..Len(FileWindow) :
               LET r == SubSeq(FileWindow, k + 1, Len(FileWindow)) IN
               TrimPass(r).state = "again" => Len(TrimPass(r).turns) < Len(r)
        /\ run.state \in {"returned", "raised"}
        /\ run.passes <= Len(FileWindow)
        /\ window = [state |-> run.state, turns |-> run.turns]

\* a read whose loop took three passes that removed turns, and then returned
C35_Witness ==
    /\ window.state = "returned"
    /\ history_file.exists /\ history_file.parses
    /\ TrimRun(FileWindow, Len(FileWindow) + 1).passes >= 3

\* C36: no command run through execute with the built-in handlers changes the
\* tree, and only a cd that succeeds changes current_dir: pwd, ls, git pull, reboot,
\* sudo, uname, whoami, a cd that fails and an unknown command leave the state as
\* it was.
C36_ExecuteFrame ==
    [][LET words == SplitWs(emu_out'.command) IN
       (file_call' = NoFileCall /\ emu_out' # NoOutput) =>
           /\ file_system' = file_system
           /\ current_dir' # current_dir =>
                  /\ Len(words) > 0 /\ words[1] = "cd"
                  /\ ~emu_out'.raised
                  /\ emu_out'.out = ""
           /\ (Len(words) > 0 /\ words[1] = "cd" /\ emu_out'.out # "") =>
                  current_dir' = current_dir]_vars

\* C36 happens: in a tree add_file has changed, git pull was executed in a
\* directory a cd had moved to
C36_Witness ==
    /\ LastCommandIs("git")
    /\ emu_out.out = "Already up to date."
    /\ current_dir = "/home"
    /\ file_system # DefaultFileSystem

\* the paths the trees of the emulator called directly can hold
ProbePaths ==
    {"/", "/home", "/home/pablo", "/home/pablo/motionapps", "/home/pablo/my-app",
     "/home/pablo/my-app/.env"}

\* C37: add_file(path) only adds: afterwards the path and every directory on the
\* way to it exist, and every path that existed before the call still exists, the
\* descendants of path included when path was a directory with entries.
C37_AddFileOnlyAdds ==
    file_call.op = "add_file" =>
        /\ ExistsIn(file_system, file_call.path)
        /\ \A q \in ProbePaths : ExistsIn(file_call.before, q) => ExistsIn(file_system, q)

\* C38: after any sequence of process_text calls run one after the other, starting
\* with no history file, the file is absent or holds a non-empty list whose first
\* turn is a user turn that does not begin with a tool_result block and whose last
\* turn is an assistant turn.
C38_PersistedHistoryShape ==
    history_file.exists =>
        /\ history_file.parses
        /\ Len(history_file.turns) > 0
        /\ history_file.turns[1].role = "user"
        /\ ~StartsWithToolResult(history_file.turns[1])
        /\ Last(history_file.turns).role = "assistant"

\* the second call of a session has persisted a history that begins with the
\* message of the first call and holds a tool result
C38_Witness ==
    /\ pc = "text"
    /\ inv = 2
    /\ history_file.exists
    /\ history_file.turns[1] = UserTurn(UserInputs[1])
    /\ \E i \in 1..Len(history_file.turns) : history_file.turns[i] = UserTurn(UserInputs[2])
    /\ \E i \in 1..Len(history_file.turns) : IsToolResultTurn(history_file.turns[i])

====
